---- MODULE Spec2Model ----
(***************************************************************************)
(* Asynchronous moderation pipeline of the advertisement service:          *)
(* the moderation_results table, the enqueue handler (async_predict and    *)
(* create_pending), the Kafka moderation worker (_handle_message) and the  *)
(* close handler (close_advertisement).  Every SQL statement, cache call   *)
(* and bus call is one atomic step; handlers interleave between them.      *)
(***************************************************************************)
EXTENDS Integers, Sequences, FiniteSets, Bags, TLC

(* ------------------------------ bounds --------------------------------- *)

\* listings (item_id values) present when the system starts
NumItems == 2
\* concurrent async_predict requests, one per handler slot
NumProducers == 2
\* concurrent _handle_message invocations, one per worker slot
NumWorkers == 2
\* concurrent close_advertisement requests
NumClosers == 1
\* rows of the tables that the single-handler specifications start from
MaxRows == 2
\* concurrent create_advertisement requests
NumCreators == 2
\* seller_id values of the requests; the users table holds the first NumUsers
NumSellers == 2
NumUsers == 1

Items == 1..NumItems
Producers == 1..NumProducers
Workers == 1..NumWorkers
Closers == 1..NumClosers
Creators == 1..NumCreators
Sellers == 1..NumSellers
Users == 1..NumUsers

(* ------------------------------ values --------------------------------- *)

\* SQL NULL / Python None, and a present value
NULL == <<>>
Some(v) == <<v>>

\* probabilities returned by the scorer, in hundredths (0.49, 0.50)
Probabilities == {49, 50}
\* the threshold of _predict: probability >= 0.5
ViolationThreshold == 50
\* error_message[:1000] in _mark_failed
ErrorMessageLimit == 1000
\* for _ in range(2) in create_pending
InsertAttempts == 2
\* PredictionRedisStorage._TTL, ModerationResultRedisStorage._PENDING_TTL and
\* _TERMINAL_TTL, in seconds
PredictionTtl == 86400
PendingTtl == 15
TerminalTtl == 86400
\* number of concurrent simple_predict / moderation_result requests
NumReaders == 2
Readers == 1..NumReaders
\* the clock advances in steps of ClockStep seconds up to MaxClock
ClockStep == 5
MaxClock == 20

VARIABLES
    advertisements,      \* item_ids that have a row in advertisements
    moderation_results,  \* id -> row of moderation_results
    next_id,             \* next value of the BIGSERIAL id sequence
    topic,               \* item_id -> number of requests on topic "moderation"
    dlq,                 \* bag of messages on topic "moderation_dlq"
    cache,               \* Redis: key -> [value, expires_at]
    transitions,         \* history: <<worker, task id>> of the claim that updated each row
    producer,            \* async_predict handlers
    worker,              \* _handle_message invocations
    closer,              \* close_advertisement handlers
    clock,               \* seconds elapsed on the servers' clocks
    reader,              \* simple_predict and moderation_result handlers
    creator,             \* create_advertisement handlers
    connections          \* create_advertisement handlers whose asyncpg connection is open

vars == <<advertisements, moderation_results, next_id, topic, dlq, cache,
          transitions,
          producer, worker, closer, clock, reader, creator, connections>>

(* --------------------------- moderation_results ------------------------ *)

\* the column default of created_at, "TIMESTAMPTZ DEFAULT now()": the start
\* time of the inserting transaction, which is the INSERT statement itself
created_at_default == clock

\* the row written by insert_query: only item_id and status are given
PendingRow(item_id) ==
    [item_id |-> item_id, status |-> "pending", is_violation |-> NULL,
     probability |-> NULL, error_message |-> NULL,
     created_at |-> created_at_default, processed_at |-> NULL]

Max(S) == CHOOSE x \in S : \A y \in S : y <= x
Min(S) == CHOOSE x \in S : \A y \in S : x <= y

RowsOf(table, item_id) == {id \in DOMAIN table : table[id].item_id = item_id}

PendingOf(table, item_id) ==
    {id \in RowsOf(table, item_id) : table[id].status = "pending"}

CompletedOf(table, item_id) ==
    {id \in RowsOf(table, item_id) : table[id].status = "completed"}

\* get_existing_query with WHERE item_id = $1 AND status = 'completed'
get_existing_query_completed_only(table, item_id) ==
    LET comp == CompletedOf(table, item_id)
    IN  IF comp # {} THEN Some(Max(comp)) ELSE NULL

\* get_existing_query with ORDER BY ..., id ASC
get_existing_query_oldest(table, item_id) ==
    LET pend == PendingOf(table, item_id)
        comp == CompletedOf(table, item_id)
    IN  IF pend # {} THEN Some(Min(pend))
        ELSE IF comp # {} THEN Some(Min(comp))
        ELSE NULL

\* SELECT ... WHERE item_id = $1 AND status IN ('pending','completed')
\* ORDER BY CASE WHEN status = 'pending' THEN 0 ELSE 1 END, id DESC LIMIT 1
get_existing_query(table, item_id) ==
    LET pend == PendingOf(table, item_id)
        comp == CompletedOf(table, item_id)
    IN  IF pend # {} THEN Some(Max(pend))
        ELSE IF comp # {} THEN Some(Max(comp))
        ELSE NULL

\* insert_query with its conflict target on the completed rows:
\* ON CONFLICT (item_id) WHERE status = 'completed' DO NOTHING
insert_query_conflict_on_completed(table, nid, item_id) ==
    IF CompletedOf(table, item_id) # {}
    THEN [table |-> table, id |-> NULL]
    ELSE [table |-> [id \in DOMAIN table \cup {nid} |->
                        IF id = nid THEN PendingRow(item_id) ELSE table[id]],
          id |-> Some(nid)]

\* insert_query without its ON CONFLICT arbiter: always inserts
insert_query_unconditional(table, nid, item_id) ==
    [table |-> [id \in DOMAIN table \cup {nid} |->
                   IF id = nid THEN PendingRow(item_id) ELSE table[id]],
     id |-> Some(nid)]

\* INSERT ... VALUES ($1,'pending') ON CONFLICT (item_id) WHERE status =
\* 'pending' DO NOTHING RETURNING id: the new table and the returned id
insert_query(table, nid, item_id) ==
    IF PendingOf(table, item_id) # {}
    THEN [table |-> table, id |-> NULL]
    ELSE [table |-> [id \in DOMAIN table \cup {nid} |->
                        IF id = nid THEN PendingRow(item_id) ELSE table[id]],
          id |-> Some(nid)]

\* the whole of create_pending run without interleaving, from a table:
\* the new table, the next sequence value and the returned id; id = NULL
\* stands for StorageUnavailableError("Failed to create pending ...")
create_pending(table, nid, item_id) ==
    LET existing == get_existing_query(table, item_id)
        first == insert_query(table, nid, item_id)
        reread1 == get_existing_query(first.table, item_id)
        second == insert_query(first.table, nid, item_id)
        reread2 == get_existing_query(second.table, item_id)
    IN  IF existing # NULL
        THEN [table |-> table, next_id |-> nid, id |-> existing]
        ELSE IF first.id # NULL
        THEN [table |-> first.table, next_id |-> nid + 1, id |-> first.id]
        ELSE IF reread1 # NULL
        THEN [table |-> first.table, next_id |-> nid, id |-> reread1]
        ELSE IF second.id # NULL
        THEN [table |-> second.table, next_id |-> nid + 1, id |-> second.id]
        ELSE [table |-> second.table, next_id |-> nid, id |-> reread2]

\* pending_task without its status = 'pending' condition
pending_task_any_status(table, item_id) ==
    LET rows == RowsOf(table, item_id)
    IN  IF rows = {} THEN NULL ELSE Some(Min(rows))

\* pending_task with "item_id = $1" missing from its WHERE clause
pending_task_any_item(table, item_id) ==
    LET pend == {id \in DOMAIN table : table[id].status = "pending"}
    IN  IF pend = {} THEN NULL ELSE Some(Min(pend))

\* WITH pending_task AS (SELECT id ... WHERE item_id = $1 AND status =
\* 'pending' ORDER BY id ASC FOR UPDATE SKIP LOCKED LIMIT 1)
pending_task(table, item_id) ==
    LET pend == PendingOf(table, item_id)
    IN  IF pend = {} THEN NULL ELSE Some(Min(pend))

\* error_message[:1000]
Truncate(s) == IF Len(s) > ErrorMessageLimit THEN SubSeq(s, 1, ErrorMessageLimit) ELSE s

\* mark_completed_query with "status = 'completed'" missing from its SET list
mark_completed_query_keeps_status(table, item_id, is_violation, probability, now) ==
    LET claimed == pending_task(table, item_id)
    IN  IF claimed = NULL
        THEN [table |-> table, id |-> NULL]
        ELSE [table |-> [table EXCEPT ![claimed[1]] =
                  [@ EXCEPT !.is_violation = Some(is_violation),
                            !.probability = Some(probability),
                            !.error_message = NULL,
                            !.processed_at = Some(now)]],
              id |-> claimed]

\* UPDATE ... SET status = 'completed', is_violation = $2, probability = $3,
\* error_message = NULL, processed_at = NOW() ... RETURNING mr.id; NOW() is
\* the start time of the transaction the statement runs in
mark_completed_query(table, item_id, is_violation, probability, now) ==
    LET claimed == pending_task(table, item_id)
    IN  IF claimed = NULL
        THEN [table |-> table, id |-> NULL]
        ELSE [table |-> [table EXCEPT ![claimed[1]] =
                  [@ EXCEPT !.status = "completed",
                            !.is_violation = Some(is_violation),
                            !.probability = Some(probability),
                            !.error_message = NULL,
                            !.processed_at = Some(now)]],
              id |-> claimed]

\* mark_failed_query with "error_message = $2" missing from its SET list
mark_failed_query_no_message(table, item_id, error_message, now) ==
    LET claimed == pending_task(table, item_id)
    IN  IF claimed = NULL
        THEN [table |-> table, id |-> NULL]
        ELSE [table |-> [table EXCEPT ![claimed[1]] =
                  [@ EXCEPT !.status = "failed",
                            !.is_violation = NULL,
                            !.probability = NULL,
                            !.processed_at = Some(now)]],
              id |-> claimed]

\* UPDATE ... SET status = 'failed', is_violation = NULL, probability = NULL,
\* error_message = $2 ... RETURNING mr.id
mark_failed_query(table, item_id, error_message, now) ==
    LET claimed == pending_task(table, item_id)
    IN  IF claimed = NULL
        THEN [table |-> table, id |-> NULL]
        ELSE [table |-> [table EXCEPT ![claimed[1]] =
                  [@ EXCEPT !.status = "failed",
                            !.is_violation = NULL,
                            !.probability = NULL,
                            !.error_message = Some(Truncate(error_message)),
                            !.processed_at = Some(now)]],
              id |-> claimed]

\* array_agg(id ORDER BY id DESC)
RECURSIVE Descending(_)
Descending(S) == IF S = {} THEN <<>> ELSE <<Max(S)>> \o Descending(S \ {Max(S)})

\* ids of a set in ascending order: array_agg(id ORDER BY id)
RECURSIVE Ascending(_)
Ascending(S) == IF S = {} THEN <<>> ELSE <<Min(S)>> \o Ascending(S \ {Min(S)})

\* close without its deleted_results CTE: only the advertisement is deleted
close_query_keeps_results(ads, table, item_id) ==
    [advertisements |-> ads \ {item_id},
     table |-> table,
     record |-> IF item_id \in ads
                THEN Some([item_id |-> item_id, moderation_result_ids |-> <<>>])
                ELSE NULL]

\* close deleting the results only when it also deletes an advertisement
close_query_keeps_orphans(ads, table, item_id) ==
    LET deleted_results == IF item_id \in ads THEN RowsOf(table, item_id) ELSE {}
        kept == [id \in DOMAIN table \ deleted_results |-> table[id]]
    IN  [advertisements |-> ads \ {item_id},
         table |-> kept,
         record |-> IF item_id \in ads
                    THEN Some([item_id |-> item_id,
                               moderation_result_ids |-> Ascending(deleted_results)])
                    ELSE NULL]

\* the statement of AdvertisementStorage.close: both DELETEs run whether or
\* not the advertisement exists; a record comes back only when it did
close_query(ads, table, item_id) ==
    LET deleted_results == RowsOf(table, item_id)
        kept == [id \in DOMAIN table \ deleted_results |-> table[id]]
    IN  [advertisements |-> ads \ {item_id},
         table |-> kept,
         record |-> IF item_id \in ads
                    THEN Some([item_id |-> item_id,
                               moderation_result_ids |-> Ascending(deleted_results)])
                    ELSE NULL]

(* ------------------------------ messages -------------------------------- *)

\* a JSON value as json.loads returns it: its Python type and, for an int or
\* a bool, its integer value (bool is a subclass of int, True == 1, False == 0)
JInt(n) == [type |-> "int", n |-> n]
JTrue == [type |-> "bool", n |-> 1]
JFalse == [type |-> "bool", n |-> 0]
JOther(type) == [type |-> type, n |-> 0]

\* the values of "item_id" in a JSON object; "missing" is an absent key
ItemIdValues ==
    {JInt(n) : n \in -1..NumItems} \cup {JTrue}
    \cup {JOther(t) : t \in {"string", "float", "null", "missing"}}

\* the bytes send_moderation_request puts on the topic:
\* json.dumps({"item_id": item_id, "timestamp": ...}).encode("utf-8")
MessageOf(item_id) ==
    [kind |-> "object", item_id |-> JInt(item_id), retry_count |-> JOther("missing")]

\* the requests of the topic: one message value per item_id
Messages == {MessageOf(i) : i \in Items}

\* message values a consumer can be handed: a JSON object, bytes that are
\* not UTF-8, text that is not JSON, JSON that is not an object, and JSON
\* nested deeper than the interpreter's recursion limit (for which
\* json.loads raises RecursionError, not JSONDecodeError)
Payloads ==
    {[kind |-> "object", item_id |-> v, retry_count |-> JOther("missing")] :
         v \in ItemIdValues}
    \cup {[kind |-> k, item_id |-> JOther("missing"), retry_count |-> JOther("missing")] :
             k \in {"invalid_utf8", "invalid_json", "not_object", "nesting_too_deep"}}

\* _extract_item_id: whether it raised, and the item_id or None it returned
extract_item_id(payload) ==
    IF payload.kind = "nesting_too_deep"
    THEN [raised |-> TRUE, item_id |-> NULL]
    ELSE IF payload.kind # "object"
    THEN [raised |-> FALSE, item_id |-> NULL]
    ELSE IF payload.item_id.type \in {"int", "bool"} /\ payload.item_id.n >= 0
    THEN [raised |-> FALSE, item_id |-> Some(payload.item_id.n)]
    ELSE [raised |-> FALSE, item_id |-> NULL]

\* the largest retry_count a delivered message carries
MaxRetryCount == 2

\* the values of "retry_count" in a JSON object
RetryCountValues ==
    {JInt(n) : n \in -1..MaxRetryCount} \cup {JTrue, JFalse}
    \cup {JOther(t) : t \in {"string", "float", "null", "missing"}}

\* the payloads _send_to_dlq is given: those of Payloads with any retry_count,
\* an empty value (b""), and bytes that are not UTF-8 and whose
\* replacement-decoded text is nested deeper than the recursion limit
\* (b"[[[[...\xff")
DlqPayloads ==
    {[kind |-> "object", item_id |-> v, retry_count |-> r] :
         v \in {JInt(1), JOther("missing")}, r \in RetryCountValues}
    \cup {[kind |-> k, item_id |-> JOther("missing"), retry_count |-> JOther("missing")] :
             k \in {"invalid_utf8", "invalid_json", "not_object", "nesting_too_deep",
                    "empty", "invalid_utf8_nesting_too_deep"}}

\* _send_to_dlq, "parsed_payload = json.loads(payload_text) if payload_text
\* else {}": the call raises something other than JSONDecodeError
loads_raises(payload) ==
    payload.kind \in {"nesting_too_deep", "invalid_utf8_nesting_too_deep"}

\* the JSON object {}
EmptyObject ==
    [kind |-> "object", item_id |-> JOther("missing"), retry_count |-> JOther("missing")]

\* _send_to_dlq, original_message: the parsed payload when it is a dict ({}
\* for an empty payload), {"raw_payload": payload_text} when json.loads
\* raised JSONDecodeError or returned something that is not a dict
original_message(payload) ==
    IF payload.kind = "object"
    THEN [raw_payload |-> FALSE, value |-> payload]
    ELSE IF payload.kind = "empty"
    THEN [raw_payload |-> FALSE, value |-> EmptyObject]
    ELSE [raw_payload |-> TRUE, value |-> payload]

\* _send_to_dlq, retry_count: raw_retry_count + 1 when the parsed payload is
\* a dict and "isinstance(raw_retry_count, int) and raw_retry_count >= 0"
\* (which a JSON true or false satisfies), 1 otherwise
retry_count(payload) ==
    IF /\ payload.kind = "object"
       /\ payload.retry_count.type \in {"int", "bool"}
       /\ payload.retry_count.n >= 0
    THEN payload.retry_count.n + 1
    ELSE 1

\* the message _send_to_dlq publishes (the timestamp is left out)
dlq_message(error_message, payload) ==
    [original_message |-> original_message(payload),
     error |-> error_message,
     retry_count |-> retry_count(payload)]

\* a published DLQ message as the producer's value_serializer encodes it:
\* a JSON object with original_message, error, timestamp and retry_count
DlqBody(message) ==
    [kind |-> "object", item_id |-> JOther("missing"),
     retry_count |-> JInt(message.retry_count)]

(* --------------------------------- Redis -------------------------------- *)

\* _build_key: "prediction:<item_id>" and "moderation_result:<task_id>"
PredictionKey(item_id) == <<"prediction", item_id>>
ModerationResultKey(task_id) == <<"moderation_result", task_id>>

\* connection.delete(key)
redis_delete(store, key) == [k \in DOMAIN store \ {key} |-> store[k]]

\* expires_at of a key that has no time to live
NoExpiry == -1

\* SET key value: the value is replaced and the key's time to live is dropped
redis_set(store, key, value) ==
    [k \in DOMAIN store \cup {key} |->
        IF k = key THEN [value |-> value, expires_at |-> NoExpiry] ELSE store[k]]

\* EXPIRE key ttl
redis_expire(store, key, ttl) ==
    [k \in DOMAIN store |->
        IF k = key THEN [store[k] EXCEPT !.expires_at = clock + ttl] ELSE store[k]]

\* one buffered command run by the server
redis_command(store, command) ==
    IF command.op = "set" THEN redis_set(store, command.key, command.value)
    ELSE redis_expire(store, command.key, command.ttl)

RECURSIVE redis_commands(_, _)
redis_commands(store, commands) ==
    IF commands = <<>> THEN store
    ELSE redis_commands(redis_command(store, Head(commands)), Tail(commands))

\* pipeline.set(name=key, value=...); pipeline.expire(key, ttl)
set_expire_pipeline(key, value, ttl) ==
    <<[op |-> "set", key |-> key, value |-> value, ttl |-> 0],
      [op |-> "expire", key |-> key, value |-> NULL, ttl |-> ttl]>>

\* how much of MULTI, the commands and EXEC the server got before the
\* connection failed: the number of commands, one more when EXEC arrived
Received(commands, out) ==
    IF out = "raise" THEN 0..Len(commands) ELSE {Len(commands) + 1}

\* execute() of a pipeline made with transaction=False: the server runs each
\* command as it arrives
pipeline_execute_without_multi(store, commands, received) ==
    redis_commands(store, SubSeq(commands, 1,
                       IF received > Len(commands) THEN Len(commands) ELSE received))

\* await pipeline.execute() of connection.pipeline(), a MULTI/EXEC block:
\* the server queues the commands and runs them all when EXEC arrives; a
\* connection that fails before EXEC discards the queue
pipeline_execute(store, commands, received) ==
    IF received > Len(commands) THEN redis_commands(store, commands) ELSE store

\* json.dumps(dict(row)): the text of a JSON object with the row's fields
dumps(row) == [kind |-> "object", fields |-> row]

\* texts a key can hold that the service did not write: JSON objects without
\* the required fields or with a status the response model rejects, an array,
\* a string, an array holding the names of the required fields, a number,
\* the word null, and text that is not JSON
ForeignTexts ==
    {dumps([task_id |-> 1]), dumps([probability |-> 50]),
     dumps([task_id |-> 1, status |-> ""])}
    \cup {[kind |-> k, fields |-> <<>>] :
             k \in {"array", "string", "array_of_names", "number", "null", "invalid_json"}}

\* json.loads(row): whether it raised, and the value (None for null)
loads(text) ==
    IF text.kind = "invalid_json" THEN [raised |-> TRUE, row |-> NULL]
    ELSE IF text.kind = "null" THEN [raised |-> FALSE, row |-> NULL]
    ELSE [raised |-> FALSE, row |-> Some(text)]

\* PredictionRedisStorage.get / ModerationResultRedisStorage.get:
\* "row = await connection.get(key); if row: return loads(row); return None"
storage_get(store, key) ==
    IF key \notin DOMAIN store
    THEN [raised |-> FALSE, row |-> NULL]
    ELSE loads(store[key].value)

\* _ttl_for_status with the two time-to-live values exchanged
ttl_for_status_exchanged(status) ==
    IF status \in {"completed", "failed"} THEN PendingTtl ELSE TerminalTtl

\* ModerationResultRedisStorage._ttl_for_status
ttl_for_status(status) ==
    IF status \in {"completed", "failed"} THEN TerminalTtl ELSE PendingTtl

\* ModerationResultRedisStorage.set giving every row the terminal time to live
moderation_result_storage_set_always_terminal(store, row_id, row, received) ==
    pipeline_execute(store,
        set_expire_pipeline(ModerationResultKey(row_id), dumps(row), TerminalTtl),
        received)

\* ModerationResultRedisStorage.set
moderation_result_storage_set(store, row_id, row, received) ==
    pipeline_execute(store,
        set_expire_pipeline(ModerationResultKey(row_id), dumps(row),
                            ttl_for_status(row.status)),
        received)

\* PredictionRedisStorage.set
prediction_storage_set(store, row_id, row, received) ==
    pipeline_execute(store,
        set_expire_pipeline(PredictionKey(row_id), dumps(row), PredictionTtl),
        received)

\* cached_row.get(name)
DictGet(fields, name) == IF name \in DOMAIN fields THEN fields[name] ELSE NULL

\* what a cache helper of the router gives its handler: a TypeError that
\* leaves the helper, a result, or None
CacheMiss == [raised |-> FALSE, result |-> NULL]
CacheTypeError == [raised |-> TRUE, result |-> NULL]

\* the checks of _get_cached_prediction and _get_cached_moderation_result on
\* the value the storage returned, made outside the try block:
\* '"a" not in cached_row or "b" not in cached_row', then cached_row["a"]
CachedFields(row, a, b) ==
    IF row.kind = "number" THEN "TypeError"        \* 'in' on an int or bool
    ELSE IF row.kind = "array_of_names" THEN "TypeError"   \* cached_row["a"]
    ELSE IF row.kind \in {"array", "string"} THEN "miss"
    ELSE IF a \notin DOMAIN row.fields \/ b \notin DOMAIN row.fields THEN "miss"
    ELSE "hit"

\* _get_cached_moderation_result: out = "raise" is the storage call raising
get_cached_moderation_result(store, task_id, out) ==
    LET got == storage_get(store, ModerationResultKey(task_id))
    IN  IF out = "raise" \/ got.raised \/ got.row = NULL
        THEN CacheMiss
        ELSE IF CachedFields(got.row[1], "task_id", "status") = "TypeError"
        THEN CacheTypeError
        ELSE IF CachedFields(got.row[1], "task_id", "status") = "miss"
        THEN CacheMiss
        ELSE [raised |-> FALSE,
              result |-> Some([task_id |-> got.row[1].fields.task_id,
                               status |-> got.row[1].fields.status,
                               is_violation |-> DictGet(got.row[1].fields, "is_violation"),
                               probability |-> DictGet(got.row[1].fields, "probability")])]

\* _get_cached_prediction
get_cached_prediction(store, item_id, out) ==
    LET got == storage_get(store, PredictionKey(item_id))
    IN  IF out = "raise" \/ got.raised \/ got.row = NULL
        THEN CacheMiss
        ELSE IF CachedFields(got.row[1], "is_valid", "probability") = "TypeError"
        THEN CacheTypeError
        ELSE IF CachedFields(got.row[1], "is_valid", "probability") = "miss"
        THEN CacheMiss
        ELSE [raised |-> FALSE,
              result |-> Some([is_valid |-> got.row[1].fields.is_valid,
                               probability |-> got.row[1].fields.probability])]

\* response_model=ModerationResultResponse: task_id >= 0, status not empty
ModerationResultResponse(response) ==
    response.task_id >= 0 /\ response.status # ""

\* the response of moderation_result built without the row's probability
MappedResult_without_probability(task_id, row) ==
    [task_id |-> task_id, status |-> row.status,
     is_violation |-> row.is_violation, probability |-> NULL]

\* the response moderation_result builds from the row get_by_id returned
MappedResult(task_id, row) ==
    [task_id |-> task_id, status |-> row.status,
     is_violation |-> row.is_violation, probability |-> row.probability]

(* ------------------------------ handlers -------------------------------- *)

\* how a storage, bus or cache call can end: normally, or by raising before
\* anything was written
Outcomes == {"ok", "raise"}
\* a writing storage call can also raise after its statement took effect
\* (e.g. connection.close() failing in get_pg_connection)
WriteOutcomes == {"ok", "raise", "raise_after"}

\* str(exc) of a raised exception
ExcDetails == {"connection refused"}

\* _compose_error_message with details = str(exc).strip() already taken
compose_error_message(base_message, details) ==
    IF details = "" THEN base_message ELSE base_message \o ": " \o details

IdleProducer ==
    [pc |-> "idle", item_id |-> 0, attempt |-> 0, result |-> NULL,
     status |-> "", inserted |-> FALSE, status_code |-> 0]

IdleWorker ==
    [pc |-> "idle", payload |-> NULL, item_id |-> 0, error_message |-> "",
     is_violation |-> NULL, probability |-> NULL, task_id |-> NULL,
     now |-> 0, outcome |-> ""]

IdleCloser ==
    [pc |-> "idle", item_id |-> 0, close_result |-> NULL, next |-> 0,
     deletes |-> <<>>, status_code |-> 0]

\* handler: "moderation_result" or "simple_predict"; id: its task_id or
\* item_id; hit: the cache helper returned a result; store: how the read of
\* the database ended ("none" when it was not made)
IdleReader ==
    [pc |-> "idle", handler |-> "", id |-> 0, hit |-> FALSE, store |-> "none",
     response |-> NULL, status_code |-> 0]

IdleCreator ==
    [pc |-> "idle", seller_id |-> 0, item_id |-> 0, status_code |-> 0]

Init ==
    /\ advertisements = Items
    /\ moderation_results = <<>>
    /\ next_id = 1
    /\ topic = [i \in Items |-> 0]
    /\ dlq = EmptyBag
    /\ cache = <<>>
    /\ transitions = {}
    /\ producer = [p \in Producers |-> IdleProducer]
    /\ worker = [w \in Workers |-> IdleWorker]
    /\ closer = [c \in Closers |-> IdleCloser]
    /\ clock = 0
    /\ reader = [r \in Readers |-> IdleReader]
    /\ creator = [c \in Creators |-> IdleCreator]
    /\ connections = {}

(* async_predict: advertisement_repo.select_advert, then create_pending,
   then kafka_client.send_moderation_request *)

\* StorageUnavailableError or a failed publish: HTTP 500
ProducerFails(p) ==
    producer' = [producer EXCEPT ![p].pc = "done", ![p].status_code = 500]

async_predict_select_advert(p, item_id, out) ==
    /\ producer[p].pc = "idle"
    /\ producer' =
         [producer EXCEPT ![p] =
            IF out = "raise"
            THEN [@ EXCEPT !.pc = "done", !.item_id = item_id, !.status_code = 500]
            ELSE IF item_id \notin advertisements
            THEN [@ EXCEPT !.pc = "done", !.item_id = item_id, !.status_code = 404]
            ELSE [@ EXCEPT !.pc = "get_existing", !.item_id = item_id]]
    /\ UNCHANGED <<creator, connections, clock, reader, advertisements, moderation_results, next_id, topic, dlq,
                   cache, transitions, worker, closer>>

\* a row was found or inserted: create_pending returns it
ProducerReturns(p, table, id) ==
    producer' = [producer EXCEPT ![p].pc = "send", ![p].result = id,
                                 ![p].status = table[id[1]].status]

\* create_pending without its first read: it goes straight to the INSERT
create_pending_get_existing_skipped(p, out) ==
    /\ producer[p].pc = "get_existing"
    /\ IF out = "raise" THEN ProducerFails(p)
       ELSE producer' = [producer EXCEPT ![p].pc = "insert", ![p].attempt = 1]
    /\ UNCHANGED <<creator, connections, clock, reader, advertisements, moderation_results, next_id, topic, dlq,
                   cache, transitions, worker, closer>>

create_pending_get_existing(p, out) ==
    /\ producer[p].pc = "get_existing"
    /\ LET existing == get_existing_query(moderation_results, producer[p].item_id)
       IN  IF out = "raise" THEN ProducerFails(p)
           ELSE IF existing # NULL
           THEN ProducerReturns(p, moderation_results, existing)
           ELSE producer' = [producer EXCEPT ![p].pc = "insert", ![p].attempt = 1]
    /\ UNCHANGED <<creator, connections, clock, reader, advertisements, moderation_results, next_id, topic, dlq,
                   cache, transitions, worker, closer>>

create_pending_insert(p, out) ==
    /\ producer[p].pc = "insert"
    /\ LET record == insert_query(moderation_results, next_id, producer[p].item_id)
       IN  IF out = "raise"
           THEN /\ ProducerFails(p)
                /\ UNCHANGED <<creator, connections, clock, reader, moderation_results, next_id>>
           ELSE /\ moderation_results' = record.table
                /\ next_id' = IF record.id # NULL THEN next_id + 1 ELSE next_id
                /\ IF out = "raise_after"
                   THEN producer' = [producer EXCEPT
                            ![p].pc = "done", ![p].status_code = 500,
                            ![p].inserted = (record.id # NULL)]
                   ELSE IF record.id # NULL
                   THEN producer' = [producer EXCEPT
                            ![p].pc = "send", ![p].result = record.id,
                            ![p].status = "pending", ![p].inserted = TRUE]
                   ELSE producer' = [producer EXCEPT ![p].pc = "reread"]
    /\ UNCHANGED <<creator, connections, clock, reader, advertisements, topic, dlq, cache, transitions, worker, closer>>

create_pending_reread(p, out) ==
    /\ producer[p].pc = "reread"
    /\ LET existing == get_existing_query(moderation_results, producer[p].item_id)
       IN  IF out = "raise" THEN ProducerFails(p)
           ELSE IF existing # NULL
           THEN ProducerReturns(p, moderation_results, existing)
           ELSE IF producer[p].attempt < InsertAttempts
           THEN producer' = [producer EXCEPT ![p].pc = "insert",
                                             ![p].attempt = @ + 1]
           ELSE ProducerFails(p)
    /\ UNCHANGED <<creator, connections, clock, reader, advertisements, moderation_results, next_id, topic, dlq,
                   cache, transitions, worker, closer>>

\* async_predict with the publish error logged and not raised
send_moderation_request_swallows(p, out) ==
    /\ producer[p].pc = "send"
    /\ topic' = IF out = "raise" THEN topic
                ELSE [topic EXCEPT ![producer[p].item_id] = @ + 1]
    /\ producer' = [producer EXCEPT ![p].pc = "done", ![p].status_code = 200]
    /\ UNCHANGED <<creator, connections, clock, reader, advertisements, moderation_results, next_id, dlq,
                   cache, transitions, worker, closer>>

\* async_predict publishing only for a task it has inserted
send_moderation_request_only_for_new(p, out) ==
    /\ producer[p].pc = "send"
    /\ IF out = "raise"
       THEN /\ ProducerFails(p)
            /\ UNCHANGED topic
       ELSE /\ topic' = IF producer[p].inserted
                        THEN [topic EXCEPT ![producer[p].item_id] = @ + 1]
                        ELSE topic
            /\ producer' = [producer EXCEPT ![p].pc = "done", ![p].status_code = 200]
    /\ UNCHANGED <<creator, connections, clock, reader, advertisements, moderation_results, next_id, dlq,
                   cache, transitions, worker, closer>>

\* async_predict deleting the task it got when the publish fails
send_moderation_request_undoes_task(p, out) ==
    /\ producer[p].pc = "send"
    /\ IF out = "raise"
       THEN /\ ProducerFails(p)
            /\ UNCHANGED topic
            /\ moderation_results' =
                   [id \in DOMAIN moderation_results \ {producer[p].result[1]}
                       |-> moderation_results[id]]
       ELSE /\ topic' = [topic EXCEPT ![producer[p].item_id] = @ + 1]
            /\ producer' = [producer EXCEPT ![p].pc = "done", ![p].status_code = 200]
            /\ UNCHANGED moderation_results
    /\ UNCHANGED <<creator, connections, clock, reader, advertisements, next_id, dlq,
                   cache, transitions, worker, closer>>

send_moderation_request(p, out) ==
    /\ producer[p].pc = "send"
    /\ IF out = "raise"
       THEN /\ ProducerFails(p)
            /\ UNCHANGED topic
       ELSE /\ topic' = [topic EXCEPT ![producer[p].item_id] = @ + 1]
            /\ producer' = [producer EXCEPT ![p].pc = "done", ![p].status_code = 200]
    /\ UNCHANGED <<creator, connections, clock, reader, advertisements, moderation_results, next_id, dlq,
                   cache, transitions, worker, closer>>

(* ModerationWorker._handle_message *)

\* _predict with a strict threshold: probability > 0.5
predict_is_violation_strict(probability) == probability > ViolationThreshold

\* _predict: is_violation = probability >= 0.5
predict_is_violation(probability) == probability >= ViolationThreshold

\* the head of _handle_message: an exception of _extract_item_id leaves the
\* handler, None goes to the DLQ as "Invalid message payload", an item_id
\* goes on to _load_advertisement
HandleMessage(w, payload) ==
    LET extracted == extract_item_id(payload)
    IN  worker' = [worker EXCEPT ![w] =
            IF extracted.raised
            THEN [@ EXCEPT !.pc = "raised", !.payload = Some(payload),
                           !.outcome = "raised"]
            ELSE IF extracted.item_id = NULL
            THEN [@ EXCEPT !.pc = "send_to_dlq", !.payload = Some(payload),
                           !.error_message = "Invalid message payload"]
            ELSE [@ EXCEPT !.pc = "load", !.payload = Some(payload),
                           !.item_id = extracted.item_id[1]]]

\* the consumer hands one request of the topic to _handle_message
consume(w, item_id) ==
    /\ worker[w].pc = "idle"
    /\ topic[item_id] > 0
    /\ topic' = [topic EXCEPT ![item_id] = @ - 1]
    /\ HandleMessage(w, MessageOf(item_id))
    /\ UNCHANGED <<creator, connections, clock, reader, advertisements, moderation_results, next_id, dlq, cache, transitions,
                   producer, closer>>

\* _handle_processing_error without its _mark_failed call
WorkerFails_skips_mark_failed(w, error_message) ==
    worker' = [worker EXCEPT ![w].pc = "send_to_dlq",
                             ![w].error_message = error_message]

\* _handle_processing_error entering _mark_failed, whose
\* "async with connection.transaction()" fixes the NOW() of its UPDATE
WorkerFails(w, error_message) ==
    worker' = [worker EXCEPT ![w].pc = "mark_failed",
                             ![w].error_message = error_message,
                             ![w].now = clock]

\* _load_advertisement raises
load_advertisement_raises(w, details) ==
    /\ worker[w].pc = "load"
    /\ WorkerFails(w, compose_error_message("Database read failed", details))
    /\ UNCHANGED <<creator, connections, clock, reader, advertisements, moderation_results, next_id, topic, dlq,
                   cache, transitions, producer, closer>>

\* _handle_message returning when the listing is missing, without
\* _handle_processing_error
advertisement_not_found_returns(w) ==
    /\ worker[w].pc = "load"
    /\ worker[w].item_id \notin advertisements
    /\ worker' = [worker EXCEPT ![w].pc = "done", ![w].outcome = "skipped"]
    /\ UNCHANGED <<creator, connections, clock, reader, advertisements, moderation_results,
                   next_id, topic, dlq, cache, transitions, producer, closer>>

\* _load_advertisement returns None
advertisement_not_found(w) ==
    /\ worker[w].pc = "load"
    /\ worker[w].item_id \notin advertisements
    /\ WorkerFails(w, "Advertisement not found")
    /\ UNCHANGED <<creator, connections, clock, reader, advertisements, moderation_results, next_id, topic, dlq,
                   cache, transitions, producer, closer>>

\* _load_advertisement returning the row, then _predict raising
predict_fails(w, details) ==
    /\ worker[w].pc = "load"
    /\ worker[w].item_id \in advertisements
    /\ WorkerFails(w, compose_error_message("Prediction failed", details))
    /\ UNCHANGED <<creator, connections, clock, reader, advertisements, moderation_results, next_id, topic, dlq,
                   cache, transitions, producer, closer>>

\* _load_advertisement returning the row, _predict returning, and
\* _mark_completed opening its transaction, which fixes the NOW() of its UPDATE
predict(w, probability) ==
    /\ worker[w].pc = "load"
    /\ worker[w].item_id \in advertisements
    /\ worker' = [worker EXCEPT ![w].pc = "mark_completed",
                    ![w].is_violation = Some(predict_is_violation(probability)),
                    ![w].probability = Some(probability),
                    ![w].now = clock]
    /\ UNCHANGED <<creator, connections, clock, reader, advertisements, moderation_results, next_id, topic, dlq,
                   cache, transitions, producer, closer>>

\* history of a claim that returned (or would have returned) a row id
Claimed(w, id) == IF id = NULL THEN {} ELSE {<<w, id[1]>>}

\* _handle_message treating "task_id is None" as a processing error
mark_completed_absent_is_error(w) ==
    /\ worker[w].pc = "mark_completed"
    /\ LET updated == mark_completed_query(moderation_results, worker[w].item_id,
                          worker[w].is_violation[1], worker[w].probability[1],
                          worker[w].now)
       IN  /\ moderation_results' = updated.table
           /\ transitions' = transitions \cup Claimed(w, updated.id)
           /\ IF updated.id = NULL
              THEN WorkerFails(w, "No pending moderation task")
              ELSE worker' = [worker EXCEPT ![w].pc = "done",
                      ![w].task_id = updated.id, ![w].outcome = "completed"]
    /\ UNCHANGED <<creator, connections, clock, reader, advertisements, next_id, topic, dlq, cache, producer, closer>>

\* _handle_message writing the completed task through to the cache
mark_completed_writes_cache(w) ==
    /\ worker[w].pc = "mark_completed"
    /\ LET updated == mark_completed_query(moderation_results, worker[w].item_id,
                          worker[w].is_violation[1], worker[w].probability[1],
                          worker[w].now)
       IN  /\ moderation_results' = updated.table
           /\ transitions' = transitions \cup Claimed(w, updated.id)
           /\ worker' = [worker EXCEPT ![w].pc = "done",
                   ![w].task_id = updated.id,
                   ![w].outcome = IF updated.id = NULL THEN "no pending task"
                                  ELSE "completed"]
           /\ cache' = IF updated.id = NULL THEN cache
                       ELSE redis_commands(cache,
                                set_expire_pipeline(ModerationResultKey(updated.id[1]),
                                    [kind |-> "object", fields |-> updated.table[updated.id[1]]],
                                    TerminalTtl))
    /\ UNCHANGED <<creator, connections, clock, reader, advertisements, next_id, topic, dlq, producer, closer>>

mark_completed(w) ==
    /\ worker[w].pc = "mark_completed"
    /\ LET updated == mark_completed_query(moderation_results, worker[w].item_id,
                          worker[w].is_violation[1], worker[w].probability[1],
                          worker[w].now)
       IN  /\ moderation_results' = updated.table
           /\ transitions' = transitions \cup Claimed(w, updated.id)
           /\ worker' = [worker EXCEPT ![w].pc = "done",
                   ![w].task_id = updated.id,
                   ![w].outcome = IF updated.id = NULL THEN "no pending task"
                                  ELSE "completed"]
    /\ UNCHANGED <<creator, connections, clock, reader, advertisements, next_id, topic, dlq, cache, producer, closer>>

\* _mark_completed raises, before the UPDATE or after its commit
mark_completed_raises(w, out, details) ==
    /\ worker[w].pc = "mark_completed"
    /\ out # "ok"
    /\ LET updated == mark_completed_query(moderation_results, worker[w].item_id,
                          worker[w].is_violation[1], worker[w].probability[1],
                          worker[w].now)
       IN  /\ moderation_results' = IF out = "raise" THEN moderation_results
                                    ELSE updated.table
           /\ transitions' = IF out = "raise" THEN transitions
                             ELSE transitions \cup Claimed(w, updated.id)
    /\ WorkerFails(w, compose_error_message("Failed to update moderation result",
                                            details))
    /\ UNCHANGED <<creator, connections, clock, reader, advertisements, next_id, topic, dlq, cache, producer, closer>>

\* _mark_failed handing the error of its own write on to the DLQ message
mark_failed_reports_write_error(w, out) ==
    /\ worker[w].pc = "mark_failed"
    /\ LET updated == mark_failed_query(moderation_results, worker[w].item_id,
                                        worker[w].error_message, worker[w].now)
       IN  /\ moderation_results' = IF out = "raise" THEN moderation_results
                                    ELSE updated.table
           /\ transitions' = IF out = "raise" THEN transitions
                             ELSE transitions \cup Claimed(w, updated.id)
           /\ worker' = [worker EXCEPT ![w].pc = "send_to_dlq",
                   ![w].error_message = IF out = "ok" THEN @
                                        ELSE "Failed to persist failed status"]
    /\ UNCHANGED <<creator, connections, clock, reader, advertisements, next_id, topic, dlq, cache, producer, closer>>

\* _handle_processing_error, first half: _mark_failed swallows what it raises
mark_failed(w, out) ==
    /\ worker[w].pc = "mark_failed"
    /\ LET updated == mark_failed_query(moderation_results, worker[w].item_id,
                                        worker[w].error_message, worker[w].now)
       IN  /\ moderation_results' = IF out = "raise" THEN moderation_results
                                    ELSE updated.table
           /\ transitions' = IF out = "raise" THEN transitions
                             ELSE transitions \cup Claimed(w, updated.id)
           /\ worker' = [worker EXCEPT ![w].pc = "send_to_dlq"]
    /\ UNCHANGED <<creator, connections, clock, reader, advertisements, next_id, topic, dlq, cache, producer, closer>>

\* _handle_processing_error sending to the DLQ only when its _mark_failed
\* changed a row
send_to_dlq_only_after_claim(w, out) ==
    /\ worker[w].pc = "send_to_dlq"
    /\ ~loads_raises(worker[w].payload[1])
    /\ dlq' = IF /\ out = "ok"
                 /\ \/ worker[w].error_message = "Invalid message payload"
                    \/ \E t \in transitions : t[1] = w
              THEN dlq (+) SetToBag({dlq_message(worker[w].error_message,
                                                 worker[w].payload[1])})
              ELSE dlq
    /\ worker' = [worker EXCEPT ![w].pc = "done",
                    ![w].outcome = IF out = "ok" THEN "dlq" ELSE "dlq publish failed"]
    /\ UNCHANGED <<creator, connections, clock, reader, advertisements, moderation_results,
                   next_id, topic, cache, transitions, producer, closer>>

\* _handle_processing_error, second half: _send_to_dlq swallows a failed publish
send_to_dlq(w, out) ==
    /\ worker[w].pc = "send_to_dlq"
    /\ ~loads_raises(worker[w].payload[1])
    /\ dlq' = IF out = "ok"
              THEN dlq (+) SetToBag({dlq_message(worker[w].error_message,
                                                 worker[w].payload[1])})
              ELSE dlq
    /\ worker' = [worker EXCEPT ![w].pc = "done",
                    ![w].outcome = IF out = "ok" THEN "dlq" ELSE "dlq publish failed"]
    /\ UNCHANGED <<creator, connections, clock, reader, advertisements, moderation_results, next_id, topic, cache, transitions,
                   producer, closer>>

\* _send_to_dlq when json.loads raises RecursionError or ValueError: only
\* JSONDecodeError is caught, so the exception leaves _send_to_dlq and
\* _handle_message before anything is published
send_to_dlq_raises(w) ==
    /\ worker[w].pc = "send_to_dlq"
    /\ loads_raises(worker[w].payload[1])
    /\ worker' = [worker EXCEPT ![w].pc = "raised", ![w].outcome = "raised"]
    /\ UNCHANGED <<creator, connections, clock, reader, advertisements, moderation_results, next_id, topic, dlq, cache,
                   transitions, producer, closer>>

(* close_advertisement: advertisement_repo.close, then the cache deletes *)

close(c, item_id, out) ==
    /\ closer[c].pc = "idle"
    /\ LET closed == close_query(advertisements, moderation_results, item_id)
       IN  \/ /\ out = "ok"
              /\ advertisements' = closed.advertisements
              /\ moderation_results' = closed.table
              /\ transitions' = {t \in transitions : t[2] \in DOMAIN closed.table}
              /\ closer' = [closer EXCEPT ![c] =
                     IF closed.record = NULL
                     THEN [@ EXCEPT !.pc = "done", !.item_id = item_id,
                                    !.status_code = 404]
                     ELSE [@ EXCEPT !.pc = "delete_prediction", !.item_id = item_id,
                                    !.close_result = closed.record]]
           \/ /\ out = "raise"
              /\ UNCHANGED <<creator, connections, clock, reader, advertisements, moderation_results, transitions>>
              /\ closer' = [closer EXCEPT ![c].pc = "done", ![c].item_id = item_id,
                                          ![c].status_code = 500]
           \/ /\ out = "raise_after"
              /\ advertisements' = closed.advertisements
              /\ moderation_results' = closed.table
              /\ transitions' = {t \in transitions : t[2] \in DOMAIN closed.table}
              /\ closer' = [closer EXCEPT ![c].pc = "done", ![c].item_id = item_id,
                                          ![c].status_code = 500]
    /\ UNCHANGED <<creator, connections, clock, reader, next_id, topic, dlq, cache, producer, worker>>

\* a cache delete whose failure is not caught: the handler ends with 500
CacheDelete_uncaught(c, key, out, pc2, next2) ==
    /\ cache' = IF out = "ok" THEN redis_delete(cache, key) ELSE cache
    /\ closer' = [closer EXCEPT
           ![c].deletes = Append(@, key),
           ![c].pc = IF out = "ok" THEN pc2 ELSE "done",
           ![c].next = next2,
           ![c].status_code = IF out # "ok" THEN 500
                              ELSE IF pc2 = "done" THEN 200 ELSE @]

\* one cache delete of the close handler; a failure is logged and ignored
CacheDelete(c, key, out, pc2, next2) ==
    /\ cache' = IF out = "ok" THEN redis_delete(cache, key) ELSE cache
    /\ closer' = [closer EXCEPT
           ![c].deletes = Append(@, key),
           ![c].pc = pc2, ![c].next = next2,
           ![c].status_code = IF pc2 = "done" THEN 200 ELSE @]

delete_prediction(c, out) ==
    /\ closer[c].pc = "delete_prediction"
    /\ LET ids == closer[c].close_result[1].moderation_result_ids
       IN  CacheDelete(c, PredictionKey(closer[c].item_id), out,
                       IF ids = <<>> THEN "done" ELSE "delete_moderation_result", 1)
    /\ UNCHANGED <<creator, connections, clock, reader, advertisements, moderation_results, next_id, topic, dlq,
                   transitions, producer, worker>>

delete_moderation_result(c, out) ==
    /\ closer[c].pc = "delete_moderation_result"
    /\ LET ids == closer[c].close_result[1].moderation_result_ids
           k == closer[c].next
       IN  CacheDelete(c, ModerationResultKey(ids[k]), out,
                       IF k = Len(ids) THEN "done" ELSE "delete_moderation_result",
                       k + 1)
    /\ UNCHANGED <<creator, connections, clock, reader, advertisements, moderation_results, next_id, topic, dlq,
                   transitions, producer, worker>>

\* the handler has answered; its slot takes the next close request
close_returns(c) ==
    /\ closer[c].pc = "done"
    /\ closer' = [closer EXCEPT ![c] = IdleCloser]
    /\ UNCHANGED <<creator, connections, clock, reader, advertisements, moderation_results, next_id, topic, dlq,
                   cache, transitions, producer, worker>>

(* ---------------------------- specification ----------------------------- *)

(* moderation_result and simple_predict: cache helper, store, cache helper *)

\* moderation_result up to "return cached_result": the cache helper, and on
\* a hit the validation of the returned dict against the response model
moderation_result_get_cached(r, task_id, out) ==
    /\ reader[r].pc = "idle"
    /\ LET cached == get_cached_moderation_result(cache, task_id, out)
           started == [reader[r] EXCEPT !.handler = "moderation_result", !.id = task_id]
       IN  reader' = [reader EXCEPT ![r] =
               IF cached.raised
               THEN [started EXCEPT !.pc = "done", !.status_code = 500]
               ELSE IF cached.result = NULL
               THEN [started EXCEPT !.pc = "get_by_id"]
               ELSE IF ModerationResultResponse(cached.result[1])
               THEN [started EXCEPT !.pc = "done", !.hit = TRUE, !.status_code = 200,
                                    !.response = cached.result]
               ELSE [started EXCEPT !.pc = "done", !.hit = TRUE, !.status_code = 500]]
    /\ UNCHANGED <<creator, connections, advertisements, moderation_results, next_id, topic, dlq, cache,
                   transitions, producer, worker, closer, clock>>

\* moderation_result_repo.get_by_id and the response built from its row
moderation_result_get_by_id(r, out) ==
    /\ reader[r].pc = "get_by_id"
    /\ reader' = [reader EXCEPT ![r] =
           IF out = "raise"
           THEN [@ EXCEPT !.pc = "done", !.store = "raise", !.status_code = 500]
           ELSE IF reader[r].id \notin DOMAIN moderation_results
           THEN [@ EXCEPT !.pc = "done", !.store = "absent", !.status_code = 404]
           ELSE [@ EXCEPT !.pc = "set_cached", !.store = "ok",
                          !.response = Some(MappedResult(reader[r].id,
                                                         moderation_results[reader[r].id]))]]
    /\ UNCHANGED <<creator, connections, advertisements, moderation_results, next_id, topic, dlq, cache,
                   transitions, producer, worker, closer, clock>>

\* _set_cached_moderation_result, whose failure is logged and ignored, and
\* "return response"
moderation_result_set_cached(r, out) ==
    /\ reader[r].pc = "set_cached"
    /\ reader[r].handler = "moderation_result"
    /\ \E received \in Received(set_expire_pipeline(NULL, NULL, 0), out) :
           cache' = moderation_result_storage_set(cache, reader[r].id,
                                                  reader[r].response[1], received)
    /\ reader' = [reader EXCEPT ![r].pc = "done", ![r].status_code = 200]
    /\ UNCHANGED <<creator, connections, advertisements, moderation_results, next_id, topic, dlq,
                   transitions, producer, worker, closer, clock>>

\* simple_predict up to "return cached_result" (the route has no response
\* model)
simple_predict_get_cached(r, item_id, out) ==
    /\ reader[r].pc = "idle"
    /\ LET cached == get_cached_prediction(cache, item_id, out)
           started == [reader[r] EXCEPT !.handler = "simple_predict", !.id = item_id]
       IN  reader' = [reader EXCEPT ![r] =
               IF cached.raised
               THEN [started EXCEPT !.pc = "done", !.status_code = 500]
               ELSE IF cached.result = NULL
               THEN [started EXCEPT !.pc = "select_advert"]
               ELSE [started EXCEPT !.pc = "done", !.hit = TRUE, !.status_code = 200,
                                    !.response = cached.result]]
    /\ UNCHANGED <<creator, connections, advertisements, moderation_results, next_id, topic, dlq, cache,
                   transitions, producer, worker, closer, clock>>

\* how _predict of the router ends: a probability, ModelNotLoadedError (503)
\* or ModelInferenceError (500)
PredictOutcomes == {"ok", "not_loaded", "inference_failed"}

\* advertisement_repo.select_advert, then _predict on the listing: is_valid
\* is the listing's is_verified_seller, probability the model's score
simple_predict_select_advert(r, out, predicted, is_valid, probability) ==
    /\ reader[r].pc = "select_advert"
    /\ reader' = [reader EXCEPT ![r] =
           IF out = "raise"
           THEN [@ EXCEPT !.pc = "done", !.store = "raise", !.status_code = 500]
           ELSE IF reader[r].id \notin advertisements
           THEN [@ EXCEPT !.pc = "done", !.store = "absent", !.status_code = 404]
           ELSE IF predicted # "ok"
           THEN [@ EXCEPT !.pc = "done", !.store = "ok",
                          !.status_code = IF predicted = "not_loaded" THEN 503 ELSE 500]
           ELSE [@ EXCEPT !.pc = "set_cached", !.store = "ok",
                          !.response = Some([is_valid |-> is_valid,
                                             probability |-> probability])]]
    /\ UNCHANGED <<creator, connections, advertisements, moderation_results, next_id, topic, dlq, cache,
                   transitions, producer, worker, closer, clock>>

\* _set_cached_prediction, whose failure is logged and ignored, and
\* "return response"
simple_predict_set_cached(r, out) ==
    /\ reader[r].pc = "set_cached"
    /\ reader[r].handler = "simple_predict"
    /\ \E received \in Received(set_expire_pipeline(NULL, NULL, 0), out) :
           cache' = prediction_storage_set(cache, reader[r].id,
                                           reader[r].response[1], received)
    /\ reader' = [reader EXCEPT ![r].pc = "done", ![r].status_code = 200]
    /\ UNCHANGED <<creator, connections, advertisements, moderation_results, next_id, topic, dlq,
                   transitions, producer, worker, closer, clock>>

\* ClockStep seconds pass; Redis drops the keys whose time to live is over
tick ==
    /\ clock < MaxClock
    /\ clock' = clock + ClockStep
    /\ cache' = [k \in {key \in DOMAIN cache :
                             \/ cache[key].expires_at = NoExpiry
                             \/ cache[key].expires_at > clock + ClockStep}
                    |-> cache[k]]
    /\ UNCHANGED <<creator, connections, advertisements, moderation_results, next_id, topic, dlq,
                   transitions, producer, worker, closer, reader>>

Next ==
    \/ \E p \in Producers, i \in Items, out \in Outcomes :
           async_predict_select_advert(p, i, out)
    \/ \E p \in Producers, out \in Outcomes : create_pending_get_existing(p, out)
    \/ \E p \in Producers, out \in WriteOutcomes : create_pending_insert(p, out)
    \/ \E p \in Producers, out \in Outcomes : create_pending_reread(p, out)
    \/ \E p \in Producers, out \in Outcomes : send_moderation_request(p, out)
    \/ \E w \in Workers, i \in Items : consume(w, i)
    \/ \E w \in Workers, d \in ExcDetails : load_advertisement_raises(w, d)
    \/ \E w \in Workers : advertisement_not_found(w)
    \/ \E w \in Workers, d \in ExcDetails : predict_fails(w, d)
    \/ \E w \in Workers, pr \in Probabilities : predict(w, pr)
    \/ \E w \in Workers : mark_completed(w)
    \/ \E w \in Workers, out \in WriteOutcomes, d \in ExcDetails :
           mark_completed_raises(w, out, d)
    \/ \E w \in Workers, out \in WriteOutcomes : mark_failed(w, out)
    \/ \E w \in Workers, out \in Outcomes : send_to_dlq(w, out)
    \/ \E c \in Closers, i \in Items, out \in WriteOutcomes : close(c, i, out)
    \/ \E c \in Closers, out \in Outcomes : delete_prediction(c, out)
    \/ \E c \in Closers, out \in Outcomes : delete_moderation_result(c, out)
    \/ \E c \in Closers : close_returns(c)

Spec == Init /\ [][Next]_vars

(* -------- create_pending as a function of the table (no interleaving) --- *)

\* rows a table can hold: as inserted, as _mark_completed and as
\* _mark_failed leave them
RowValues ==
    {PendingRow(i) : i \in Items}
    \cup {[PendingRow(i) EXCEPT !.status = "completed",
              !.is_violation = Some(predict_is_violation(pr)),
              !.probability = Some(pr),
              !.processed_at = Some(clock)] : i \in Items, pr \in Probabilities}
    \cup {[PendingRow(i) EXCEPT !.status = "failed",
              !.error_message = Some("Advertisement not found"),
              !.processed_at = Some(clock)] : i \in Items}

\* tables of at most MaxRows rows that the partial unique index
\* (item_id) WHERE status = 'pending' admits: a row is inserted only when its
\* item has no pending row, so a pending row is the newest row of its item
Tables ==
    UNION {{t \in [1..n -> RowValues] :
               \A i \in Items :
                   /\ Cardinality(PendingOf(t, i)) <= 1
                   /\ \A id \in PendingOf(t, i) : id = Max(RowsOf(t, i))} :
           n \in 0..MaxRows}

InitStored ==
    /\ clock = 0
    /\ moderation_results \in Tables
    /\ next_id = Len(moderation_results) + 1
    /\ topic = [i \in Items |-> 0]
    /\ dlq = EmptyBag
    /\ transitions = {}
    /\ producer = [p \in Producers |-> IdleProducer]
    /\ worker = [w \in Workers |-> IdleWorker]
    /\ closer = [c \in Closers |-> IdleCloser]
    /\ reader = [r \in Readers |-> IdleReader]
    /\ creator = [c \in Creators |-> IdleCreator]
    /\ connections = {}

InitSeq ==
    /\ InitStored
    /\ advertisements = Items
    /\ cache = <<>>

\* one whole call of ModerationResultStorage.create_pending
create_pending_call(p, item_id) ==
    /\ producer[p].pc = "idle"
    /\ LET r == create_pending(moderation_results, next_id, item_id)
       IN  /\ moderation_results' = r.table
           /\ next_id' = r.next_id
           /\ producer' = [producer EXCEPT ![p] =
                  IF r.id = NULL
                  THEN [@ EXCEPT !.pc = "done", !.item_id = item_id,
                                 !.status_code = 500]
                  ELSE [@ EXCEPT !.pc = "send", !.item_id = item_id,
                                 !.result = r.id,
                                 !.status = r.table[r.id[1]].status,
                                 !.inserted = (r.next_id # next_id)]]
    /\ UNCHANGED <<creator, connections, clock, reader, advertisements, topic, dlq, cache, transitions, worker, closer>>

NextSeq == \E p \in Producers, i \in Items : create_pending_call(p, i)

SpecSeq == InitSeq /\ [][NextSeq]_vars

(* ------------- close_advertisement alone, over a filled cache ----------- *)

CacheKeys(table) ==
    {PredictionKey(i) : i \in Items}
    \cup {ModerationResultKey(id) : id \in DOMAIN table}

\* the entry the service has written under a key: a simple_predict response,
\* or the mapped row of the task with the time to live of its status
CachedEntry(table, key) ==
    IF key[1] = "prediction"
    THEN [value |-> dumps([is_valid |-> TRUE, probability |-> 50]),
          expires_at |-> PredictionTtl]
    ELSE [value |-> dumps(MappedResult(key[2], table[key[2]])),
          expires_at |-> ttl_for_status(table[key[2]].status)]

InitClose ==
    /\ InitStored
    /\ advertisements \in SUBSET Items
    /\ cache \in {[k \in K |-> CachedEntry(moderation_results, k)] :
                      K \in SUBSET CacheKeys(moderation_results)}

NextClose ==
    \/ \E c \in Closers, i \in Items, out \in WriteOutcomes : close(c, i, out)
    \/ \E c \in Closers, out \in Outcomes : delete_prediction(c, out)
    \/ \E c \in Closers, out \in Outcomes : delete_moderation_result(c, out)
    \/ \E c \in Closers : close_returns(c)

SpecClose == InitClose /\ [][NextClose]_vars

(* ---- one worker process: _handle_message on one message after another --- *)

\* str(exc).strip() of the exceptions raised to the handler; some exceptions
\* (asyncio.TimeoutError()) have an empty text
ExcTexts == ExcDetails \cup {""}

\* run(): "async for message in self.consumer: await self._handle_message(..)"
\* takes the next message when the previous handler has returned; a handler
\* that raised has ended the loop
handle_message(w, payload) ==
    /\ worker[w].pc = "idle"
    /\ \A v \in Workers : worker[v].pc \in {"idle", "done"}
    /\ \A v \in Workers : v < w => worker[v].pc = "done"
    /\ HandleMessage(w, payload)
    /\ UNCHANGED <<creator, connections, clock, reader, advertisements, moderation_results, next_id, topic, dlq,
                   cache, transitions, producer, closer>>

InitWorker ==
    /\ InitStored
    /\ advertisements \in SUBSET Items
    /\ cache = <<>>

NextWorker ==
    \/ \E w \in Workers, payload \in Payloads : handle_message(w, payload)
    \/ \E w \in Workers, d \in ExcTexts : load_advertisement_raises(w, d)
    \/ \E w \in Workers : advertisement_not_found(w)
    \/ \E w \in Workers, d \in ExcTexts : predict_fails(w, d)
    \/ \E w \in Workers, pr \in Probabilities : predict(w, pr)
    \/ \E w \in Workers : mark_completed(w)
    \/ \E w \in Workers, out \in WriteOutcomes, d \in ExcTexts :
           mark_completed_raises(w, out, d)
    \/ \E w \in Workers, out \in WriteOutcomes : mark_failed(w, out)
    \/ \E w \in Workers, out \in Outcomes : send_to_dlq(w, out)

SpecWorker == InitWorker /\ [][NextWorker]_vars

(* ---- one worker process whose messages end in the dead-letter queue ---- *)

\* a message of the DLQ topic is put on the worker's topic again as it is
redeliver(w, message) ==
    /\ BagIn(message, dlq)
    /\ handle_message(w, DlqBody(message))

\* no listing is stored, so a request with a usable item_id fails with
\* "Advertisement not found" and every handled message goes to _send_to_dlq
InitDlq ==
    /\ InitStored
    /\ moderation_results = <<>>
    /\ advertisements = {}
    /\ cache = <<>>

NextDlq ==
    \/ \E w \in Workers, payload \in DlqPayloads : handle_message(w, payload)
    \/ \E w \in Workers : advertisement_not_found(w)
    \/ \E w \in Workers, out \in WriteOutcomes : mark_failed(w, out)
    \/ \E w \in Workers, out \in Outcomes : send_to_dlq(w, out)
    \/ \E w \in Workers : send_to_dlq_raises(w)
    \/ \E w \in Workers, message \in BagToSet(dlq) : redeliver(w, message)

SpecDlq == InitDlq /\ [][NextDlq]_vars

(* ---- moderation_result requests, beside a worker and the passing time --- *)

\* what Redis holds at the start: nothing, or one task key with what the
\* service wrote there or with a text it did not write
InitialCaches(table) ==
    {<<>>}
    \cup {[k \in {ModerationResultKey(id)} |-> CachedEntry(table, ModerationResultKey(id))] :
             id \in DOMAIN table}
    \cup {[k \in {ModerationResultKey(id)} |-> [value |-> text, expires_at |-> TerminalTtl]] :
             id \in 1..Len(table) + 1, text \in ForeignTexts}

\* the table holds at most MaxCachedRows rows at the start; the first item
\* is listed, the others are not
MaxCachedRows == 1

InitCache ==
    /\ InitStored
    /\ Len(moderation_results) <= MaxCachedRows
    /\ advertisements = {1}
    /\ cache \in InitialCaches(moderation_results)

NextCache ==
    \/ \E r \in Readers, task_id \in 1..next_id, out \in Outcomes :
           moderation_result_get_cached(r, task_id, out)
    \/ \E r \in Readers, out \in Outcomes : moderation_result_get_by_id(r, out)
    \/ \E r \in Readers, out \in WriteOutcomes : moderation_result_set_cached(r, out)
    \/ tick
    \/ \E payload \in Messages : handle_message(1, payload)
    \/ advertisement_not_found(1)
    \/ \E pr \in Probabilities : predict(1, pr)
    \/ mark_completed(1)
    \/ mark_failed(1, "ok")
    \/ send_to_dlq(1, "ok")

SpecCache == InitCache /\ [][NextCache]_vars

(* ------------- the two Redis storages, called on any row ---------------- *)

\* the rows ModerationResultRedisStorage.set can be given: the statuses the
\* table holds and one it does not
CachedStatuses == {"pending", "completed", "failed", "cancelled"}

ModerationResultRedisStorage_set(row_id, row, out) ==
    /\ \E received \in Received(set_expire_pipeline(NULL, NULL, 0), out) :
           cache' = moderation_result_storage_set(cache, row_id, row, received)
    /\ UNCHANGED <<creator, connections, advertisements, moderation_results, next_id, topic, dlq,
                   transitions, producer, worker, closer, clock, reader>>

PredictionRedisStorage_set(row_id, row, out) ==
    /\ \E received \in Received(set_expire_pipeline(NULL, NULL, 0), out) :
           cache' = prediction_storage_set(cache, row_id, row, received)
    /\ UNCHANGED <<creator, connections, advertisements, moderation_results, next_id, topic, dlq,
                   transitions, producer, worker, closer, clock, reader>>

NextStorage ==
    \/ \E row_id \in 1..MaxRows, status \in CachedStatuses, out \in WriteOutcomes :
           ModerationResultRedisStorage_set(
               row_id,
               [task_id |-> row_id, status |-> status, is_violation |-> NULL,
                probability |-> NULL],
               out)
    \/ \E row_id \in Items, is_valid \in BOOLEAN, out \in WriteOutcomes :
           PredictionRedisStorage_set(
               row_id, [is_valid |-> is_valid, probability |-> 50], out)
    \/ tick

SpecStorage == Init /\ [][NextStorage]_vars

(* ------- close_advertisement beside the two cached read handlers -------- *)

\* every listing is stored, the cache is empty, and no call fails
InitCloseRead ==
    /\ InitStored
    /\ advertisements = Items
    /\ cache = <<>>

NextCloseRead ==
    \/ \E c \in Closers, i \in Items : close(c, i, "ok")
    \/ \E c \in Closers : delete_prediction(c, "ok")
    \/ \E c \in Closers : delete_moderation_result(c, "ok")
    \/ \E c \in Closers : close_returns(c)
    \/ \E r \in Readers, task_id \in 1..next_id :
           moderation_result_get_cached(r, task_id, "ok")
    \/ \E r \in Readers : moderation_result_get_by_id(r, "ok")
    \/ \E r \in Readers : moderation_result_set_cached(r, "ok")
    \/ \E r \in Readers, item_id \in Items : simple_predict_get_cached(r, item_id, "ok")
    \/ \E r \in Readers, is_valid \in BOOLEAN, probability \in Probabilities :
           simple_predict_select_advert(r, "ok", "ok", is_valid, probability)
    \/ \E r \in Readers : simple_predict_set_cached(r, "ok")

SpecCloseRead == InitCloseRead /\ [][NextCloseRead]_vars

(* ---- producers, worker and closure of one listing, without any fault --- *)

\* requests the service accepts one after another on one connection slot
MaxTaskId == 2
MaxMessages == 2

\* async_predict has returned its response; the slot takes the next request
async_predict_returns(p) ==
    /\ producer[p].pc = "done"
    /\ next_id <= MaxTaskId
    /\ \A i \in Items : topic[i] < MaxMessages
    /\ producer' = [producer EXCEPT ![p] = IdleProducer]
    /\ UNCHANGED <<creator, connections, clock, reader, advertisements, moderation_results, next_id,
                   topic, dlq, cache, transitions, worker, closer>>

\* every database, Kafka and Redis call answers; the scorer returns
NextRace ==
    \/ \E p \in Producers : async_predict_select_advert(p, 1, "ok")
    \/ \E p \in Producers : create_pending_get_existing(p, "ok")
    \/ \E p \in Producers : create_pending_insert(p, "ok")
    \/ \E p \in Producers : create_pending_reread(p, "ok")
    \/ \E p \in Producers : send_moderation_request(p, "ok")
    \/ \E p \in Producers : async_predict_returns(p)
    \/ consume(1, 1)
    \/ advertisement_not_found(1)
    \/ \E pr \in Probabilities : predict(1, pr)
    \/ mark_completed(1)
    \/ mark_failed(1, "ok")
    \/ send_to_dlq(1, "ok")
    \/ \E c \in Closers : close(c, 1, "ok")
    \/ \E c \in Closers : delete_prediction(c, "ok")
    \/ \E c \in Closers : delete_moderation_result(c, "ok")
    \/ tick

SpecRace == Init /\ [][NextRace]_vars

(* ---- create_advertisement: get_pg_connection around AdvertisementStorage.create --- *)

\* how an awaited database call ends: it returns, it raises, or the request
\* task is cancelled while it is suspended in the call
CallOutcomes == {"ok", "raise", "cancel"}

\* an exception leaves the "async with get_pg_connection()" body: it is
\* thrown into the generator at its yield, which has no try/finally, so the
\* "await connection.close()" after the yield is not run
CreatorRaises(c, status_code) ==
    /\ creator' = [creator EXCEPT ![c].pc = "done", ![c].status_code = status_code]
    /\ UNCHANGED connections

\* asyncio.CancelledError leaves the body the same way; it is not an
\* Exception, so no handler of the operation catches it
CreatorCancelled(c) ==
    /\ creator' = [creator EXCEPT ![c].pc = "cancelled"]
    /\ UNCHANGED connections

\* create_advertisement entering AdvertisementStorage.create:
\* get_pg_connection awaits asyncpg.connect
create_connect(c, seller_id, item_id, out) ==
    /\ creator[c].pc = "idle"
    /\ IF out = "ok"
       THEN /\ creator' = [creator EXCEPT ![c].pc = "seller_exists",
                              ![c].seller_id = seller_id, ![c].item_id = item_id]
            /\ connections' = connections \cup {c}
       ELSE /\ creator' = [creator EXCEPT ![c].seller_id = seller_id,
                              ![c].item_id = item_id,
                              ![c].pc = IF out = "raise" THEN "done" ELSE "cancelled",
                              ![c].status_code = IF out = "raise" THEN 500 ELSE 0]
            /\ UNCHANGED connections
    /\ UNCHANGED <<advertisements, moderation_results, next_id, topic, dlq, cache,
                   transitions, producer, worker, closer, clock, reader>>

\* seller_exists_query, and SellerNotFoundError raised inside the body
create_seller_exists(c, out) ==
    /\ creator[c].pc = "seller_exists"
    /\ IF out = "cancel" THEN CreatorCancelled(c)
       ELSE IF out = "raise" THEN CreatorRaises(c, 500)
       ELSE IF creator[c].seller_id \notin Users THEN CreatorRaises(c, 404)
       ELSE /\ creator' = [creator EXCEPT ![c].pc = "insert"]
            /\ UNCHANGED connections
    /\ UNCHANGED <<advertisements, moderation_results, next_id, topic, dlq, cache,
                   transitions, producer, worker, closer, clock, reader>>

\* insert_query; a unique violation is raised inside the body; when it
\* returns the body ends and get_pg_connection closes the connection
create_insert(c, out) ==
    /\ creator[c].pc = "insert"
    /\ IF out = "cancel" THEN CreatorCancelled(c) /\ UNCHANGED advertisements
       ELSE IF out = "raise" THEN CreatorRaises(c, 500) /\ UNCHANGED advertisements
       ELSE IF creator[c].item_id \in advertisements
       THEN CreatorRaises(c, 409) /\ UNCHANGED advertisements
       ELSE /\ advertisements' = advertisements \cup {creator[c].item_id}
            /\ creator' = [creator EXCEPT ![c].pc = "select_advert"]
            /\ connections' = connections \ {c}
    /\ UNCHANGED <<moderation_results, next_id, topic, dlq, cache,
                   transitions, producer, worker, closer, clock, reader>>

\* AdvertisementRepository.create reading the listing back with
\* AdvertisementStorage.select_advert, on a connection of its own
create_select_advert(c, out) ==
    /\ creator[c].pc = "select_advert"
    /\ IF out = "cancel"
       THEN /\ creator' = [creator EXCEPT ![c].pc = "cancelled"]
            /\ connections' = connections \cup {c}
       ELSE IF out = "raise"
       THEN /\ creator' = [creator EXCEPT ![c].pc = "done", ![c].status_code = 500]
            /\ connections' = connections \cup {c}
       ELSE /\ creator' = [creator EXCEPT ![c].pc = "done",
                  ![c].status_code = IF creator[c].item_id \in advertisements
                                     THEN 200 ELSE 500]
            /\ UNCHANGED connections
    /\ UNCHANGED <<advertisements, moderation_results, next_id, topic, dlq, cache,
                   transitions, producer, worker, closer, clock, reader>>

\* the connection object of a finished request is collected: nothing
\* references it any more and the driver drops its socket
connection_collected(c) ==
    /\ creator[c].pc \in {"done", "cancelled"}
    /\ c \in connections
    /\ connections' = connections \ {c}
    /\ UNCHANGED <<advertisements, moderation_results, next_id, topic, dlq, cache,
                   transitions, producer, worker, closer, clock, reader, creator>>

\* create_advertisement requests beside a closure of a listing
InitConnections ==
    /\ InitStored
    /\ advertisements = {1}
    /\ \A id \in DOMAIN moderation_results :
           moderation_results[id].item_id \in advertisements
    /\ cache = <<>>

NextConnections ==
    \/ \E c \in Creators, seller_id \in Sellers, item_id \in Items, out \in CallOutcomes :
           create_connect(c, seller_id, item_id, out)
    \/ \E c \in Creators, out \in CallOutcomes : create_seller_exists(c, out)
    \/ \E c \in Creators, out \in CallOutcomes : create_insert(c, out)
    \/ \E c \in Creators, out \in CallOutcomes : create_select_advert(c, out)
    \/ \E c \in Creators : connection_collected(c)
    \/ \E c \in Closers, i \in Items : close(c, i, "ok")
    \/ \E c \in Closers : delete_prediction(c, "ok")
    \/ \E c \in Closers : delete_moderation_result(c, "ok")

SpecConnections == InitConnections /\ [][NextConnections]_vars

(* ---- the worker beside the cached read handlers, closure and time ------ *)

\* the cache is empty, the table holds at most MaxCachedRows rows, the first
\* item is listed, and no call fails
InitCoherence ==
    /\ InitStored
    /\ Len(moderation_results) <= MaxCachedRows
    /\ advertisements = {1}
    /\ cache = <<>>

NextCoherence ==
    \/ \E payload \in Messages : handle_message(1, payload)
    \/ advertisement_not_found(1)
    \/ \E pr \in Probabilities : predict(1, pr)
    \/ mark_completed(1)
    \/ mark_failed(1, "ok")
    \/ send_to_dlq(1, "ok")
    \/ \E task_id \in 1..next_id : moderation_result_get_cached(1, task_id, "ok")
    \/ moderation_result_get_by_id(1, "ok")
    \/ moderation_result_set_cached(1, "ok")
    \/ \E item_id \in Items : simple_predict_get_cached(1, item_id, "ok")
    \/ \E is_valid \in BOOLEAN, probability \in Probabilities :
           simple_predict_select_advert(1, "ok", "ok", is_valid, probability)
    \/ simple_predict_set_cached(1, "ok")
    \/ \E c \in Closers, i \in Items : close(c, i, "ok")
    \/ \E c \in Closers : delete_prediction(c, "ok")
    \/ \E c \in Closers : delete_moderation_result(c, "ok")
    \/ tick

SpecCoherence == InitCoherence /\ [][NextCoherence]_vars

(* ---- enqueues, workers and a closure of one listing, scheduled fairly --- *)

\* a step of an async_predict handler, every call answering
ProducerStep ==
    \E p \in Producers :
        \/ async_predict_select_advert(p, 1, "ok")
        \/ create_pending_get_existing(p, "ok")
        \/ create_pending_insert(p, "ok")
        \/ create_pending_reread(p, "ok")
        \/ send_moderation_request(p, "ok")

\* the consumer delivering a request, or a step of _handle_message, every
\* call answering and the scorer returning
WorkerStep ==
    \E w \in Workers :
        \/ consume(w, 1)
        \/ advertisement_not_found(w)
        \/ \E pr \in Probabilities : predict(w, pr)
        \/ mark_completed(w)
        \/ mark_failed(w, "ok")
        \/ send_to_dlq(w, "ok")

NextProgress ==
    \/ \E p \in Producers : async_predict_select_advert(p, 1, "ok")
    \/ \E p \in Producers : create_pending_get_existing(p, "ok")
    \/ \E p \in Producers : create_pending_insert(p, "ok")
    \/ \E p \in Producers : create_pending_reread(p, "ok")
    \/ \E p \in Producers : send_moderation_request(p, "ok")
    \/ \E w \in Workers : consume(w, 1)
    \/ \E w \in Workers : advertisement_not_found(w)
    \/ \E w \in Workers, pr \in Probabilities : predict(w, pr)
    \/ \E w \in Workers : mark_completed(w)
    \/ \E w \in Workers : mark_failed(w, "ok")
    \/ \E w \in Workers : send_to_dlq(w, "ok")
    \/ \E c \in Closers : close(c, 1, "ok")
    \/ \E c \in Closers : delete_prediction(c, "ok")
    \/ \E c \in Closers : delete_moderation_result(c, "ok")

\* the event loop resumes every handler whose call has answered, and the
\* worker's "async for message in self.consumer" keeps taking messages; a
\* close request may or may not arrive
SpecProgress ==
    /\ Init
    /\ [][NextProgress]_vars
    /\ WF_vars(ProducerStep)
    /\ WF_vars(WorkerStep)

(* -------------------------------- claims -------------------------------- *)

\* C1: in every reachable state, under every interleaving of create_pending
\* calls, worker claims and closures, each item_id has at most one row of
\* moderation_results with status = 'pending'.
C1_AtMostOnePending ==
    \A i \in Items : Cardinality(PendingOf(moderation_results, i)) <= 1

\* two create_pending calls raced on one item: one inserted the row, the
\* other's INSERT hit the conflict and it is about to re-read
C1_Witness ==
    \E p, q \in Producers :
        /\ p # q
        /\ producer[p].inserted
        /\ producer[q].pc = "reread"
        /\ producer[q].item_id = producer[p].item_id
        /\ PendingOf(moderation_results, producer[p].item_id) = {producer[p].result[1]}

\* C2: a row's status changes only from pending to completed or from pending
\* to failed; a completed or failed row is never changed again by any
\* operation (claims, create_pending, further messages): it stays as it is
\* until a closure deletes it, and its id is never given to a new row.
C2_StatusTransitions ==
    [][/\ \A id \in DOMAIN moderation_results \cap DOMAIN moderation_results' :
            /\ moderation_results[id].status # "pending"
                  => moderation_results'[id] = moderation_results[id]
            /\ moderation_results'[id].status # moderation_results[id].status
                  => /\ moderation_results[id].status = "pending"
                     /\ moderation_results'[id].status \in {"completed", "failed"}
       /\ \A id \in DOMAIN moderation_results' \ DOMAIN moderation_results :
            /\ id = next_id
            /\ next_id' > next_id
            /\ moderation_results'[id].status = "pending"]_vars

\* a handler that did not perform the transition has run its claim on the
\* item of a completed or failed row and has finished; the row is still there
C2_Witness ==
    \E w \in Workers, id \in DOMAIN moderation_results :
        /\ worker[w].pc = "done"
        /\ worker[w].outcome \in {"no pending task", "dlq"}
        /\ moderation_results[id].item_id = worker[w].item_id
        /\ moderation_results[id].status \in {"completed", "failed"}
        /\ <<w, id>> \notin transitions

\* the rows of a table that a step has changed or removed
ChangedRows(old, new) ==
    {id \in DOMAIN old : id \notin DOMAIN new \/ new[id] # old[id]}

\* C3: when several workers handle duplicates of a request for an item with
\* one pending task, exactly one of them performs the terminal transition:
\* every completed or failed row was updated by exactly one handler, a claim
\* statement that runs leaves no pending row of its item behind and updates
\* at most that one row, and a handler whose claim returns absent changes no
\* row and finishes (no failed write, nothing sent to the DLQ).
C3_ExactlyOneClaim ==
    /\ [](/\ \A id \in DOMAIN moderation_results :
               moderation_results[id].status \in {"completed", "failed"}
                   => Cardinality({w \in Workers : <<w, id>> \in transitions}) = 1
          /\ \A t \in transitions : Cardinality({w \in Workers : <<w, t[2]>> \in transitions}) = 1
          /\ \A w \in Workers :
               worker[w].outcome = "no pending task"
                   => /\ worker[w].pc = "done"
                      /\ \A id \in DOMAIN moderation_results : <<w, id>> \notin transitions)
    /\ [][\A w \in Workers :
            /\ (mark_completed(w) \/ mark_failed(w, "ok"))
                  => /\ PendingOf(moderation_results', worker[w].item_id) = {}
                     /\ ChangedRows(moderation_results, moderation_results')
                           = PendingOf(moderation_results, worker[w].item_id)
                     /\ Cardinality(ChangedRows(moderation_results, moderation_results')) <= 1
            /\ (mark_completed(w) /\ worker'[w].task_id = NULL)
                  => /\ moderation_results' = moderation_results
                     /\ worker'[w].pc = "done"
                     /\ dlq' = dlq]_vars

\* two handlers took duplicates of the request of an item with one task:
\* one completed it, the other found no pending row and finished
C3_Witness ==
    \E w1, w2 \in Workers :
        /\ w1 # w2
        /\ worker[w1].item_id = worker[w2].item_id
        /\ worker[w1].outcome = "completed"
        /\ worker[w2].outcome = "no pending task"
        /\ RowsOf(moderation_results, worker[w1].item_id) = {worker[w1].task_id[1]}
        /\ moderation_results[worker[w1].task_id[1]].status = "completed"
        /\ transitions = {<<w1, worker[w1].task_id[1]>>}

\* C4: in every reachable state every task row has status = 'completed'
\* exactly when is_violation and probability are both non-null, and
\* status = 'failed' exactly when error_message is non-null.
C4_ResultFieldsMatchStatus ==
    \A id \in DOMAIN moderation_results :
        LET row == moderation_results[id]
        IN  /\ row.status = "completed" <=> (row.is_violation # NULL /\ row.probability # NULL)
            /\ row.status = "failed" <=> row.error_message # NULL

\* the table holds a completed and a failed row at once
C4_Witness ==
    /\ \E id \in DOMAIN moderation_results :
          /\ moderation_results[id].status = "completed"
          /\ moderation_results[id].is_violation \in {Some(TRUE), Some(FALSE)}
          /\ moderation_results[id].probability \in {Some(pr) : pr \in Probabilities}
    /\ \E id \in DOMAIN moderation_results :
          /\ moderation_results[id].status = "failed"
          /\ moderation_results[id].is_violation = NULL
          /\ moderation_results[id].probability = NULL
          /\ moderation_results[id].error_message # NULL

\* producers whose create_pending has returned a row of the item
Returned(item_id) ==
    {p \in Producers : /\ producer[p].item_id = item_id
                       /\ producer[p].pc \in {"send", "done"}
                       /\ producer[p].result # NULL}

\* C5: concurrent create_pending calls on an item that has had no completed
\* or failed task (its listing is there and all its rows are pending) all
\* return the same task id, and exactly one row has been inserted for it.
C5_ConcurrentCreatePending ==
    \A i \in Items :
        (/\ i \in advertisements
         /\ RowsOf(moderation_results, i) = PendingOf(moderation_results, i)
         /\ Returned(i) # {})
            => /\ \A p \in Returned(i) :
                     RowsOf(moderation_results, i) = {producer[p].result[1]}
               /\ Cardinality({p \in Producers : /\ producer[p].item_id = i
                                                 /\ producer[p].inserted}) = 1

\* one call inserted the row; a racing call saw no row, lost the insert to
\* the conflict and got the same row from the re-read
C5_Witness ==
    \E p, q \in Producers :
        /\ p # q
        /\ {p, q} \subseteq Returned(producer[p].item_id)
        /\ producer[p].inserted
        /\ ~producer[q].inserted /\ producer[q].attempt = 1
        /\ producer[q].result = producer[p].result
        /\ producer[p].item_id \in advertisements
        /\ PendingOf(moderation_results, producer[p].item_id) = {producer[p].result[1]}

\* C6: a create_pending call that directly follows another one for the same
\* item returns the same task id with the same status, inserts no row and
\* leaves the table as it was.
C6_CreatePendingIdempotent ==
    [][\A q \in Producers, i \in Items :
          (create_pending_call(q, i) /\ Returned(i) # {})
              => /\ \A p \in Returned(i) :
                       /\ producer'[q].result = producer[p].result
                       /\ producer'[q].status = producer[p].status
                 /\ ~producer'[q].inserted
                 /\ moderation_results' = moderation_results
                 /\ next_id' = next_id]_vars

\* the first call inserted a pending row for an item whose tasks had all
\* failed; the second call returned that row and inserted nothing
C6_Witness ==
    \E p, q \in Producers :
        /\ p # q
        /\ {p, q} \subseteq Returned(producer[p].item_id)
        /\ producer[p].inserted /\ ~producer[q].inserted
        /\ producer[q].result = producer[p].result
        /\ producer[q].status = "pending"
        /\ next_id = producer[p].result[1] + 1
        /\ \E id \in RowsOf(moderation_results, producer[p].item_id) :
              moderation_results[id].status = "failed"

\* C7: create_pending returns the pending row of the item if there is one,
\* otherwise its completed row of highest id if there is one, and inserts
\* nothing in both cases; only when the item has neither (no rows, or failed
\* rows only) it inserts a new pending row and returns it.
C7_CreatePendingSelection ==
    [][\A p \in Producers, i \in Items :
          create_pending_call(p, i)
              => LET pend == PendingOf(moderation_results, i)
                     comp == CompletedOf(moderation_results, i)
                     id == producer'[p].result
                 IN  /\ id # NULL
                     /\ IF pend # {}
                        THEN /\ id[1] \in pend
                             /\ moderation_results' = moderation_results
                             /\ next_id' = next_id
                        ELSE IF comp # {}
                        THEN /\ id[1] \in comp
                             /\ \A other \in comp : other <= id[1]
                             /\ moderation_results' = moderation_results
                             /\ next_id' = next_id
                        ELSE /\ id[1] = next_id
                             /\ next_id' = next_id + 1
                             /\ DOMAIN moderation_results' = DOMAIN moderation_results \cup {id[1]}
                             /\ id[1] \notin DOMAIN moderation_results
                             /\ moderation_results'[id[1]] = PendingRow(i)
                             /\ \A old \in DOMAIN moderation_results :
                                   moderation_results'[old] = moderation_results[old]]_vars

\* a call on an item with two completed rows returned the newer one without
\* inserting, and a call on an item without rows inserted a pending row
C7_Witness ==
    \E p, q \in Producers :
        /\ producer[p].pc = "send" /\ producer[q].pc = "send"
        /\ producer[p].result = Some(2)
        /\ producer[p].status = "completed"
        /\ ~producer[p].inserted
        /\ CompletedOf(moderation_results, producer[p].item_id) = {1, 2}
        /\ producer[q].inserted
        /\ RowsOf(moderation_results, producer[q].item_id) = {producer[q].result[1]}

\* C8: the commit of a closure of item_id, under every interleaving with
\* enqueue and worker steps, removes the listing row and every task row of
\* that item in one step and touches nothing else; rows are removed by no
\* other step; the closure reports the listing exactly when it existed, and
\* a close_listing run on the state it leaves returns absent.
C8_ClosureAtomic ==
    [][/\ \A c \in Closers, i \in Items :
            (close(c, i, "ok") \/ close(c, i, "raise_after"))
                => /\ i \notin advertisements'
                   /\ RowsOf(moderation_results', i) = {}
                   /\ advertisements' = advertisements \ {i}
                   /\ ChangedRows(moderation_results, moderation_results')
                         = RowsOf(moderation_results, i)
                   /\ DOMAIN moderation_results' \subseteq DOMAIN moderation_results
                   /\ close_query(advertisements', moderation_results', i).record = NULL
                   /\ close(c, i, "ok")
                         => IF i \in advertisements
                            THEN /\ closer'[c].close_result # NULL
                                 /\ closer'[c].close_result[1].item_id = i
                            ELSE /\ closer'[c].close_result = NULL
                                 /\ closer'[c].status_code = 404
       /\ \A i \in Items :
            (i \in advertisements /\ i \notin advertisements')
                => RowsOf(moderation_results', i) = {}
       /\ \A id \in DOMAIN moderation_results \ DOMAIN moderation_results' :
            /\ moderation_results[id].item_id \notin advertisements'
            /\ RowsOf(moderation_results', moderation_results[id].item_id) = {}]_vars

\* a closure has just deleted a listing with its task row while an enqueue
\* of the same item stood between its listing check and its insert and a
\* worker was handling a request of that item
C8_Witness ==
    \E c \in Closers, p \in Producers, w \in Workers :
        /\ closer[c].pc = "delete_prediction"
        /\ Len(closer[c].close_result[1].moderation_result_ids) >= 1
        /\ closer[c].item_id \notin advertisements
        /\ RowsOf(moderation_results, closer[c].item_id) = {}
        /\ producer[p].item_id = closer[c].item_id
        /\ producer[p].pc \in {"get_existing", "insert"}
        /\ worker[w].item_id = closer[c].item_id
        /\ worker[w].pc = "mark_completed"

\* the cache deletes a close handler owes for the record close_listing gave
ExpectedDeletes(c) ==
    LET ids == closer[c].close_result[1].moderation_result_ids
    IN  <<PredictionKey(closer[c].close_result[1].item_id)>>
        \o [k \in 1..Len(ids) |-> ModerationResultKey(ids[k])]

\* C9: the close handler issues cache deletes only after close_listing has
\* returned a record; it deletes prediction:<item_id> first and then
\* moderation_result:<id> for exactly the task ids close_listing deleted, in
\* ascending order; when close_listing returns absent or raises, no cache
\* delete is issued and the cache is left as it was.
C9_ClosureInvalidation ==
    /\ [](\A c \in Closers :
            /\ closer[c].close_result = NULL => closer[c].deletes = <<>>
            /\ closer[c].status_code \in {404, 500} => closer[c].deletes = <<>>
            /\ closer[c].close_result # NULL
                  => LET ids == closer[c].close_result[1].moderation_result_ids
                     IN  /\ closer[c].close_result[1].item_id = closer[c].item_id
                         /\ \A k \in 1..Len(ids) - 1 : ids[k] < ids[k + 1]
                         /\ Len(closer[c].deletes) <= Len(ExpectedDeletes(c))
                         /\ closer[c].deletes
                               = SubSeq(ExpectedDeletes(c), 1, Len(closer[c].deletes))
                         /\ closer[c].status_code = 200
                               => closer[c].deletes = ExpectedDeletes(c))
    /\ [][\A c \in Closers, i \in Items :
            /\ (\E out \in WriteOutcomes : close(c, i, out)) => cache' = cache
            /\ (close(c, i, "ok") /\ i \in advertisements)
                  => {closer'[c].close_result[1].moderation_result_ids[k] :
                         k \in 1..Len(closer'[c].close_result[1].moderation_result_ids)}
                       = RowsOf(moderation_results, i)
            /\ cache' # cache
                  => \E d \in Closers :
                        /\ closer[d].close_result # NULL
                        /\ cache' = redis_delete(cache, ExpectedDeletes(d)[Len(closer[d].deletes) + 1])]_vars

\* a closure of a listing with two tasks has deleted the prediction key and
\* both task keys, the lower id first, and left another item's key cached
C9_Witness ==
    \E c \in Closers :
        /\ closer[c].pc = "done" /\ closer[c].status_code = 200
        /\ closer[c].deletes = <<PredictionKey(closer[c].item_id),
                                 ModerationResultKey(1), ModerationResultKey(2)>>
        /\ \A k \in 1..3 : closer[c].deletes[k] \notin DOMAIN cache
        /\ \E i \in Items : i # closer[c].item_id /\ PredictionKey(i) \in DOMAIN cache

\* C10: a failing cache delete does not fail the closure: the handler goes
\* on exactly as after a successful delete, so whichever deletes fail, a
\* closure that got its record answers 'closed' after attempting the
\* prediction key and each returned task id exactly once.
C10_DeleteFailuresIgnored ==
    /\ [](\A c \in Closers :
            (closer[c].pc = "done" /\ closer[c].close_result # NULL)
                => /\ closer[c].status_code = 200
                   /\ closer[c].deletes = ExpectedDeletes(c)
                   /\ \A k, l \in 1..Len(closer[c].deletes) :
                         closer[c].deletes[k] = closer[c].deletes[l] => k = l)
    /\ [][\A c \in Closers :
            (delete_prediction(c, "raise") \/ delete_moderation_result(c, "raise"))
                => /\ cache' = cache
                   /\ closer'[c].deletes
                         = Append(closer[c].deletes,
                                  ExpectedDeletes(c)[Len(closer[c].deletes) + 1])
                   /\ closer'[c].status_code \in {0, 200}
                   /\ closer'[c].status_code = 200
                         <=> Len(closer'[c].deletes) = Len(ExpectedDeletes(c))
                   /\ closer'[c].pc = IF closer'[c].status_code = 200 THEN "done"
                                      ELSE "delete_moderation_result"]_vars

\* a closure answered 'closed' although its first and its last cache delete
\* failed (their keys are still cached); the delete in between succeeded
C10_Witness ==
    \E c \in Closers :
        /\ closer[c].pc = "done" /\ closer[c].status_code = 200
        /\ Len(closer[c].deletes) = 3
        /\ closer[c].deletes[1] \in DOMAIN cache
        /\ closer[c].deletes[2] \notin DOMAIN cache
        /\ closer[c].deletes[3] \in DOMAIN cache

\* the order of the steps of async_predict
EnqueueOrder ==
    {<<"idle", "get_existing">>, <<"idle", "done">>,
     <<"get_existing", "send">>, <<"get_existing", "insert">>, <<"get_existing", "done">>,
     <<"insert", "send">>, <<"insert", "reread">>, <<"insert", "done">>,
     <<"reread", "send">>, <<"reread", "insert">>, <<"reread", "done">>,
     <<"send", "done">>}

\* C11: enqueue runs listing check, create_pending and publish in this order
\* and stops at the first failure: it answers 404 at the listing check
\* without writing a row or publishing, it answers 500 without publishing
\* when the listing read or create_pending fails, it answers 500 when the
\* publish fails, and it answers 200 only in the step that publishes, with
\* the task create_pending returned in hand.  Nothing but that step puts a
\* request on the topic and nothing but create_pending inserts a row.
C11_EnqueueStopsAtFirstFailure ==
    [][/\ \A p \in Producers :
            producer'[p] # producer[p]
                => /\ <<producer[p].pc, producer'[p].pc>> \in EnqueueOrder
                   /\ producer'[p].status_code = 404
                         => /\ producer[p].pc = "idle"
                            /\ producer'[p].item_id \notin advertisements
                            /\ producer'[p].result = NULL
                            /\ moderation_results' = moderation_results
                            /\ topic' = topic
                   /\ producer'[p].status_code = 500
                         => /\ topic' = topic
                            /\ producer[p].pc \in {"idle", "get_existing", "reread"}
                                  => moderation_results' = moderation_results
                            /\ producer[p].pc # "send" => producer'[p].result = NULL
                   /\ producer'[p].status_code = 200
                         => /\ producer[p].pc = "send"
                            /\ producer[p].result # NULL
                            /\ topic' = [topic EXCEPT ![producer[p].item_id] = @ + 1]
                   /\ producer'[p].pc = "send" => producer'[p].result # NULL
                   /\ (producer[p].pc = "send" /\ producer'[p].status_code # 200)
                         => producer'[p].status_code = 500
       /\ topic' # topic /\ (\A i \in Items : topic'[i] >= topic[i])
            => \E p \in Producers : /\ producer[p].pc = "send"
                                    /\ producer'[p].status_code = 200
       /\ DOMAIN moderation_results' \ DOMAIN moderation_results # {}
            => \E p \in Producers : /\ producer[p].pc = "insert"
                                    /\ producer'[p] # producer[p]]_vars

\* one enqueue was answered 404 after a closure, another one got its task
\* but failed to publish: no request is on the topic and none was consumed
C11_Witness ==
    \E p, q \in Producers :
        /\ producer[p].status_code = 404 /\ producer[p].result = NULL
        /\ producer[q].status_code = 500 /\ producer[q].result # NULL
        /\ \A i \in Items : topic[i] = 0
        /\ \A w \in Workers : worker[w].pc = "idle"

\* enqueue calls of an item that were answered 200
Accepted(item_id) ==
    {p \in Producers : producer[p].item_id = item_id /\ producer[p].status_code = 200}

\* C12: an enqueue whose create_pending finds a pending task of the item
\* returns that task's id and inserts nothing; and when two concurrent
\* enqueues of an item whose listing is present (and whose task no worker has
\* finished) were both answered, they carry the same task_id and the table
\* holds exactly one row of the item, which is pending.
C12_DuplicateEnqueue ==
    /\ [](\A i \in Items : \A p, q \in Accepted(i) :
            (/\ p # q
             /\ i \in advertisements
             /\ RowsOf(moderation_results, i) = PendingOf(moderation_results, i))
                => /\ producer[p].result = producer[q].result
                   /\ producer[p].status = "pending"
                   /\ PendingOf(moderation_results, i) = {producer[p].result[1]}
                   /\ Cardinality(RowsOf(moderation_results, i)) = 1)
    /\ [][\A p \in Producers :
            (/\ create_pending_get_existing(p, "ok")
             /\ PendingOf(moderation_results, producer[p].item_id) # {})
                => /\ producer'[p].pc = "send"
                   /\ producer'[p].result # NULL
                   /\ producer'[p].result[1]
                         \in PendingOf(moderation_results, producer[p].item_id)
                   /\ producer'[p].status = "pending"
                   /\ ~producer'[p].inserted
                   /\ moderation_results' = moderation_results]_vars

\* both enqueues of an item were answered 200 with the same pending task:
\* one inserted it, the other found it in its first read
C12_Witness ==
    \E p, q \in Producers :
        /\ p # q
        /\ {p, q} \subseteq Accepted(producer[p].item_id)
        /\ producer[p].inserted
        /\ ~producer[q].inserted /\ producer[q].attempt = 0
        /\ producer[q].result = producer[p].result
        /\ PendingOf(moderation_results, producer[p].item_id) = {producer[p].result[1]}
        /\ producer[p].item_id \in advertisements

\* handlers that were handed a request of the item from the topic
Consumed(item_id) ==
    {w \in Workers : worker[w].payload = Some(MessageOf(item_id))}

\* C13: every enqueue answered 200 has published exactly one request with its
\* item_id, in the step after create_pending returned, whether the task was
\* inserted by it or already there (pending or completed): the requests of
\* an item on the topic plus those consumed equal the accepted enqueues of
\* the item, and each consumed request decodes to that item_id.
C13_OnePublishPerEnqueue ==
    /\ [](/\ \A i \in Items :
               Cardinality(Accepted(i)) = topic[i] + Cardinality(Consumed(i))
          /\ \A i \in Items : \A w \in Consumed(i) : worker[w].item_id = i
          /\ \A w \in Workers : worker[w].pc # "idle"
               => \E i \in Items : w \in Consumed(i))
    /\ [][\A p \in Producers :
            (producer[p].pc = "send" /\ producer'[p] # producer[p])
                => /\ producer[p].result # NULL
                   /\ producer'[p].pc = "done"
                   /\ IF producer'[p].status_code = 200
                      THEN topic' = [topic EXCEPT ![producer[p].item_id] = @ + 1]
                      ELSE topic' = topic]_vars

\* two enqueues of an item were accepted, the second one for the task the
\* first had inserted and a worker had completed by then: one request was
\* consumed and one more is on the topic
C13_Witness ==
    \E p, q \in Producers :
        /\ p # q
        /\ Accepted(producer[p].item_id) = {p, q}
        /\ producer[p].inserted
        /\ ~producer[q].inserted /\ producer[q].status = "completed"
        /\ topic[producer[p].item_id] = 1
        /\ Cardinality(Consumed(producer[p].item_id)) = 1

\* C14: when the completion claim of a handler finds no pending row of the
\* item (another worker took it, or a closure deleted it), the handler
\* changes no row, does not call the failed-state write, sends nothing to the
\* DLQ and returns: that step ends the handler, which takes no further step.
C14_MissingPendingRowIsNotAnError ==
    /\ [](\A w \in Workers :
            worker[w].outcome = "no pending task"
                => /\ worker[w].pc = "done"
                   /\ worker[w].task_id = NULL
                   /\ worker[w].error_message = "")
    /\ [][\A w \in Workers :
            /\ (/\ worker[w].pc = "mark_completed"
                /\ worker'[w].outcome = "no pending task")
                  => /\ PendingOf(moderation_results, worker[w].item_id) = {}
                     /\ moderation_results' = moderation_results
                     /\ dlq' = dlq
                     /\ transitions' = transitions
                     /\ worker'[w].pc = "done"
            /\ (/\ mark_completed(w)
                /\ PendingOf(moderation_results, worker[w].item_id) = {})
                  => worker'[w].outcome = "no pending task"
            /\ worker[w].pc = "done" => worker'[w] = worker[w]]_vars

\* a handler read the listing and scored it, a closure then deleted the
\* listing with its task, and the handler's claim found no pending row
C14_Witness ==
    \E w \in Workers :
        /\ worker[w].pc = "done"
        /\ worker[w].outcome = "no pending task"
        /\ worker[w].item_id \notin advertisements
        /\ RowsOf(moderation_results, worker[w].item_id) = {}
        /\ dlq = EmptyBag

\* the handler of w has returned for a message whose item_id decoded
Handled(w) ==
    /\ worker[w].pc = "done"
    /\ extract_item_id(worker[w].payload[1]).item_id # NULL

\* C15: no silent loss: whenever a handler has returned for a message whose
\* item_id decodes, whatever the store, the scorer and the bus did, it has
\* made a terminal transition of a task, or discarded the message as a
\* duplicate (its completion claim found no pending row), or published a
\* DLQ entry.
C15_NoSilentLoss ==
    \A w \in Workers :
        Handled(w)
            => \/ \E id \in DOMAIN moderation_results : <<w, id>> \in transitions
               \/ worker[w].outcome = "no pending task"
               \/ /\ worker[w].outcome = "dlq"
                  /\ BagIn(dlq_message(worker[w].error_message, worker[w].payload[1]), dlq)

\* '<base>: <detail>' for every text of an exception
DetailedMessages(base) == {base \o ": " \o d : d \in ExcTexts}

\* '<base>: <detail>', and '<base>' alone for an exception without text
ComposedMessages(base) ==
    {base \o ": " \o d : d \in ExcTexts \ {""}}
    \cup (IF "" \in ExcTexts THEN {base} ELSE {})

\* the failure funnel of a decoded message, with the messages allowed for a
\* failed listing read, a failed scoring and a failed completed-state write
FailureFunnel(read, score, write) ==
    \A w \in Workers :
        LET msg == worker'[w].error_message
            changed == ChangedRows(moderation_results, moderation_results')
        IN  /\ (worker[w].pc = "load" /\ worker'[w].pc # "load")
                  => /\ worker'[w].pc \in {"mark_completed", "mark_failed"}
                     /\ worker'[w].pc = "mark_failed"
                           => \/ /\ msg = "Advertisement not found"
                                 /\ worker[w].item_id \notin advertisements
                              \/ msg \in read
                              \/ msg \in score /\ worker[w].item_id \in advertisements
            /\ (worker[w].pc = "mark_completed" /\ worker'[w].pc # "mark_completed")
                  => /\ worker'[w].pc \in {"done", "mark_failed"}
                     /\ worker'[w].pc = "mark_failed" => msg \in write
            /\ (worker[w].pc = "mark_failed" /\ worker'[w] # worker[w])
                  => /\ worker'[w].pc = "send_to_dlq"
                     /\ msg = worker[w].error_message
                     /\ dlq' = dlq
                     /\ changed \subseteq PendingOf(moderation_results, worker[w].item_id)
                     /\ \A id \in changed :
                           /\ moderation_results'[id].status = "failed"
                           /\ moderation_results'[id].error_message = Some(msg)
            /\ (/\ worker[w].pc = "send_to_dlq" /\ worker'[w] # worker[w]
                /\ worker[w].error_message # "Invalid message payload")
                  => /\ worker'[w].pc = "done"
                     /\ msg = worker[w].error_message
                     /\ moderation_results' = moderation_results
                     /\ \/ dlq' = dlq (+) SetToBag({dlq_message(msg, worker[w].payload[1])})
                        \/ dlq' = dlq /\ worker'[w].outcome = "dlq publish failed"
            /\ worker[w].pc = "done" => worker'[w] = worker[w]

\* C16 (as amended): for a decoded message each failure (listing read error,
\* listing missing, scorer error, error while writing the completed state)
\* leads to exactly one failed-state claim for the item with msg, then
\* exactly one DLQ send carrying the same msg, and to no completion claim
\* afterwards; msg is 'Advertisement not found' for a missing listing and
\* for the others '<base>: <detail>', or '<base>' alone when the exception
\* has no text.
C16_FailureFunnel ==
    [][FailureFunnel(ComposedMessages("Database read failed"),
                     ComposedMessages("Prediction failed"),
                     ComposedMessages("Failed to update moderation result"))]_vars

\* C16 as stated: the same funnel with msg = '<base>: <detail>' for every
\* failure other than the missing listing.
C16_FailureFunnelAsStated ==
    [][FailureFunnel(DetailedMessages("Database read failed"),
                     DetailedMessages("Prediction failed"),
                     DetailedMessages("Failed to update moderation result"))]_vars

\* a handler whose scorer raised an exception without text has failed the
\* pending task of its item with 'Prediction failed' and has put that same
\* message on the DLQ
C16_Witness ==
    \E w \in Workers, id \in DOMAIN moderation_results :
        /\ worker[w].pc = "done" /\ worker[w].outcome = "dlq"
        /\ worker[w].error_message = "Prediction failed"
        /\ <<w, id>> \in transitions
        /\ moderation_results[id].status = "failed"
        /\ moderation_results[id].error_message = Some("Prediction failed")
        /\ BagIn(dlq_message("Prediction failed", worker[w].payload[1]), dlq)

\* payloads that are not a JSON object with a non-negative integer item_id
NotARequest(payload) ==
    \/ payload.kind # "object"
    \/ payload.item_id.type # "int"
    \/ payload.item_id.n < 0

\* C17: for every payload that is not valid UTF-8 JSON, not a JSON object,
\* or whose item_id is missing or not a non-negative integer (negative,
\* string, float, null, JSON boolean), the handler reads no listing, makes no
\* claim and sends exactly one DLQ message with error 'Invalid message
\* payload'.  Stated for the payloads on which the decoder returns; those on
\* which it raises are left to C19.
C17_InvalidPayloadGoesToDlq ==
    \A w \in Workers :
        (/\ worker[w].payload # NULL
         /\ NotARequest(worker[w].payload[1])
         /\ ~extract_item_id(worker[w].payload[1]).raised)
            => /\ worker[w].pc \in {"send_to_dlq", "done"}
               /\ worker[w].error_message = "Invalid message payload"
               /\ \A id \in DOMAIN moderation_results : <<w, id>> \notin transitions
               /\ worker[w].pc = "done"
                     => worker[w].outcome \in {"dlq", "dlq publish failed"}
               /\ worker[w].outcome = "dlq"
                     => BagIn(dlq_message("Invalid message payload",
                                          worker[w].payload[1]), dlq)

\* C18: worker happy path: with the listing found and the scorer returning p
\* the handler goes to the completion claim with is_violation = (p >= 0.5)
\* and probability = p; the claim, when it runs, turns the pending task of
\* the item into completed with those values, no error_message and
\* processed_at set, and ends the handler: no failed-state claim, nothing
\* sent to the DLQ.
C18_HappyPath ==
    [][\A w \in Workers :
          /\ (worker[w].pc = "load" /\ worker'[w].pc = "mark_completed")
                => /\ worker[w].item_id \in advertisements
                   /\ worker'[w].probability # NULL
                   /\ worker'[w].probability[1] \in Probabilities
                   /\ worker'[w].is_violation
                         = Some(worker'[w].probability[1] >= ViolationThreshold)
                   /\ moderation_results' = moderation_results
                   /\ dlq' = dlq
          /\ (mark_completed(w) /\ PendingOf(moderation_results, worker[w].item_id) # {})
                => \E id \in PendingOf(moderation_results, worker[w].item_id) :
                      /\ ChangedRows(moderation_results, moderation_results') = {id}
                      /\ DOMAIN moderation_results' = DOMAIN moderation_results
                      /\ moderation_results'[id]
                            = [item_id |-> worker[w].item_id,
                               status |-> "completed",
                               is_violation |-> worker[w].is_violation,
                               probability |-> worker[w].probability,
                               error_message |-> NULL,
                               created_at |-> moderation_results[id].created_at,
                               processed_at |-> Some(worker[w].now)]
                      /\ worker'[w].pc = "done"
                      /\ worker'[w].task_id = Some(id)
                      /\ worker'[w].error_message = ""
                      /\ dlq' = dlq]_vars

\* a handler got probability 0.50 from the scorer and completed the pending
\* task of its item as a violation; the DLQ is empty
C18_Witness ==
    \E w \in Workers, id \in DOMAIN moderation_results :
        /\ worker[w].pc = "done" /\ worker[w].outcome = "completed"
        /\ worker[w].task_id = Some(id)
        /\ worker[w].probability = Some(ViolationThreshold)
        /\ moderation_results[id].status = "completed"
        /\ moderation_results[id].is_violation = Some(TRUE)
        /\ moderation_results[id].probability = Some(ViolationThreshold)
        /\ moderation_results[id].processed_at # NULL
        /\ dlq = EmptyBag

\* C19: the message handler never propagates an error: for every payload and
\* every combination of failures no invocation of _handle_message ends by
\* raising, so the consume loop goes on to the next message.
C19_HandlerNeverRaises ==
    \A w \in Workers : worker[w].pc # "raised"

\* C20 (as amended): the failed-state write is best-effort: when it raises,
\* the error is swallowed and the DLQ message is still sent carrying the
\* original processing error; the task row is left as it was when the write
\* raised before taking effect, and is the item's pending row turned failed
\* with the original error when it raised after its commit.
C20_MarkFailedBestEffort ==
    [][\A w \in Workers :
          /\ (mark_failed(w, "raise") \/ mark_failed(w, "raise_after"))
                => /\ worker'[w].pc = "send_to_dlq"
                   /\ worker'[w].error_message = worker[w].error_message
                   /\ dlq' = dlq
          /\ mark_failed(w, "raise") => moderation_results' = moderation_results
          /\ mark_failed(w, "raise_after")
                => \A id \in ChangedRows(moderation_results, moderation_results') :
                      /\ id \in PendingOf(moderation_results, worker[w].item_id)
                      /\ moderation_results'[id].status = "failed"
                      /\ moderation_results'[id].error_message
                            = Some(worker[w].error_message)
          /\ (worker[w].pc = "send_to_dlq" /\ worker'[w].outcome = "dlq")
                => /\ worker[w].error_message
                         \in {"Invalid message payload", "Advertisement not found"}
                             \cup ComposedMessages("Database read failed")
                             \cup ComposedMessages("Prediction failed")
                             \cup ComposedMessages("Failed to update moderation result")
                   /\ dlq' = dlq (+) SetToBag({dlq_message(worker[w].error_message,
                                                           worker[w].payload[1])})]_vars

\* C20 as stated: whenever the failed-state write raises, the task row is
\* left as it was.
C20_RowUntouchedWheneverWriteRaises ==
    [][\A w \in Workers :
          (mark_failed(w, "raise") \/ mark_failed(w, "raise_after"))
              => /\ moderation_results' = moderation_results
                 /\ worker'[w].pc = "send_to_dlq"
                 /\ worker'[w].error_message = worker[w].error_message]_vars

\* the listing of a pending task was missing, the failed-state write raised
\* before taking effect, and the DLQ got 'Advertisement not found': the task
\* is still pending and the handler changed no row
C20_Witness ==
    \E w \in Workers :
        /\ worker[w].pc = "done" /\ worker[w].outcome = "dlq"
        /\ worker[w].error_message = "Advertisement not found"
        /\ PendingOf(moderation_results, worker[w].item_id) # {}
        /\ transitions = {}
        /\ BagIn(dlq_message("Advertisement not found", worker[w].payload[1]), dlq)

\* C21: every published DLQ message has retry_count equal to the
\* retry_count of the payload plus 1 when the payload is a JSON object whose
\* retry_count is a non-negative integer, and equal to 1 in every other case
\* (field missing, negative, string, float, null, JSON boolean, non-object
\* or unparsable payload); so it is always at least 1, and a DLQ body that
\* is handled again is published with its retry_count plus 1.
C21_RetryCount ==
    \A message \in BagToSet(dlq) :
        LET payload == message.original_message.value
        IN  /\ message.retry_count >= 1
            /\ message.retry_count =
                   IF /\ ~message.original_message.raw_payload
                      /\ payload.kind = "object"
                      /\ payload.retry_count.type = "int"
                      /\ payload.retry_count.n >= 0
                   THEN payload.retry_count.n + 1
                   ELSE 1

\* C22: the DLQ message of a handled payload carries the handler's error
\* string, and its original_message is the decoded JSON of the payload
\* whenever the payload parses as JSON (a JSON object, or an array, number
\* or string) and {"raw_payload": text} exactly when it does not parse (an
\* empty payload, bytes that are not JSON).
C22_EnvelopeBody ==
    \A w \in Workers :
        worker[w].outcome = "dlq"
            => LET payload == worker[w].payload[1]
                   parses == payload.kind \in {"object", "not_object"}
               IN  BagIn([original_message |-> [raw_payload |-> ~parses, value |-> payload],
                          error |-> worker[w].error_message,
                          retry_count |-> retry_count(payload)], dlq)

\* C23: a handled message that is a duplicate of an already processed event
\* (an earlier handler of the same payload has completed the task) is
\* skipped: its handler updates no row to completed or failed and sends
\* nothing to the DLQ.
C23_DuplicateEventSkipped ==
    \A w1, w2 \in Workers :
        (/\ w1 < w2
         /\ worker[w1].outcome = "completed"
         /\ worker[w2].payload = worker[w1].payload)
            => /\ \A id \in DOMAIN moderation_results : <<w2, id>> \notin transitions
               /\ worker[w2].pc # "send_to_dlq"
               /\ worker[w2].outcome \notin {"dlq", "dlq publish failed"}

\* C24: a cache error never fails a read: a moderation_result request whose
\* cache get raised, or returned nothing or a payload without the required
\* fields task_id and status, is answered from the store as with an empty
\* cache (200 with the stored row, 404 when the task is absent, 500 only
\* when the store read raised), whatever its cache set did.
C24_CacheErrorsNeverFailARead ==
    \A r \in Readers :
        (reader[r].pc = "done" /\ ~reader[r].hit)
            => /\ reader[r].store # "none"
               /\ reader[r].status_code =
                      CASE reader[r].store = "raise" -> 500
                        [] reader[r].store = "absent" -> 404
                        [] reader[r].store = "ok" -> 200
               /\ reader[r].store = "ok"
                      => /\ reader[r].response # NULL
                         /\ reader[r].response[1].task_id = reader[r].id

\* C25: moderation_result is cache-aside. On a cache hit it answers with the
\* cached task_id, status, is_violation and probability and neither reads
\* the store nor writes the cache. On a miss it reads the store; when the
\* task exists its answer is the mapped row {task_id, status, is_violation,
\* probability}, and the only cache write it makes puts exactly that answer
\* under the task's key; when the task is absent it answers 404 and writes
\* nothing. (A hit is a cached payload the response model accepts.)
C25_CacheAside ==
    [][/\ \A r \in Readers :
            LET id == reader'[r].id
                key == ModerationResultKey(id)
            IN  /\ (reader[r].pc = "idle" /\ reader'[r].hit /\ reader'[r].status_code = 200)
                      => /\ cache' = cache
                         /\ reader'[r].pc = "done"
                         /\ reader'[r].store = "none"
                         /\ key \in DOMAIN cache
                         /\ reader'[r].response =
                               Some([task_id |-> cache[key].value.fields.task_id,
                                     status |-> cache[key].value.fields.status,
                                     is_violation |-> DictGet(cache[key].value.fields,
                                                              "is_violation"),
                                     probability |-> DictGet(cache[key].value.fields,
                                                             "probability")])
                /\ (reader[r].pc = "get_by_id" /\ reader'[r].pc # "get_by_id")
                      => /\ cache' = cache
                         /\ reader'[r].store # "raise"
                               => IF id \in DOMAIN moderation_results
                                  THEN /\ reader'[r].pc = "set_cached"
                                       /\ reader'[r].response =
                                             Some([task_id |-> id,
                                                   status |-> moderation_results[id].status,
                                                   is_violation |->
                                                       moderation_results[id].is_violation,
                                                   probability |->
                                                       moderation_results[id].probability])
                                  ELSE /\ reader'[r].pc = "done"
                                       /\ reader'[r].status_code = 404
                /\ (reader[r].pc = "set_cached" /\ reader'[r].pc # "set_cached")
                      => /\ reader'[r].pc = "done"
                         /\ reader'[r].status_code = 200
                         /\ reader'[r].response = reader[r].response
                         /\ \/ cache' = cache
                            \/ cache' = [k \in DOMAIN cache \cup {key} |->
                                            IF k = key
                                            THEN [value |-> [kind |-> "object",
                                                             fields |-> reader[r].response[1]],
                                                  expires_at |-> cache'[key].expires_at]
                                            ELSE cache[k]]
       /\ (cache' # cache /\ clock' = clock)
             => \E r \in Readers : reader[r].pc = "set_cached" /\ reader'[r].pc = "done"]_vars

\* one request missed, read the completed task from the store and left
\* exactly its answer under the task's key; the next one was answered with
\* that entry without a store read
C25_Witness ==
    \E r1, r2 \in Readers :
        /\ reader[r1].pc = "done" /\ reader[r1].hit /\ reader[r1].status_code = 200
        /\ reader[r1].store = "none"
        /\ reader[r2].pc = "done" /\ ~reader[r2].hit /\ reader[r2].store = "ok"
        /\ reader[r2].id = reader[r1].id
        /\ ModerationResultKey(reader[r2].id) \in DOMAIN cache
        /\ cache[ModerationResultKey(reader[r2].id)].value = dumps(reader[r2].response[1])
        /\ reader[r1].response = reader[r2].response
        /\ reader[r2].response[1].probability # NULL

\* the time to live a write has given to the entry of a key, in a step
WrittenTtl(key) == cache'[key].expires_at - clock

\* the keys a step has written
Written == {key \in DOMAIN cache' : key \notin DOMAIN cache \/ cache'[key] # cache[key]}

Terminal(id) ==
    /\ id \in DOMAIN moderation_results
    /\ moderation_results[id].status \in {"completed", "failed"}

\* a request that read the task from the store while it was pending and has
\* not yet written the cache and answered
HoldsPendingRead(id) ==
    \E r \in Readers :
        /\ reader[r].pc = "set_cached"
        /\ reader[r].handler = "moderation_result"
        /\ reader[r].id = id
        /\ reader[r].response[1].status = "pending"

\* the key of the task holds an entry whose cached status is pending
PendingCached(store, id) ==
    /\ ModerationResultKey(id) \in DOMAIN store
    /\ store[ModerationResultKey(id)].value.kind = "object"
    /\ "status" \in DOMAIN store[ModerationResultKey(id)].value.fields
    /\ store[ModerationResultKey(id)].value.fields.status = "pending"

\* C27: staleness on pending is bounded by 15 s: a cache entry whose cached
\* status is pending is gone at most 15 s after it was written; while a task
\* is terminal in the store and no request holds a store read made before
\* the transition, no pending entry is written or prolonged for it; and once
\* none is left, a request answered from the cache gets the store's terminal
\* status.
C27_PendingStalenessBounded ==
    /\ [](\A id \in 1..next_id :
             PendingCached(cache, id)
                 => /\ clock < cache[ModerationResultKey(id)].expires_at
                    /\ cache[ModerationResultKey(id)].expires_at <= clock + 15)
    /\ [][\A id \in 1..next_id :
            (Terminal(id) /\ ~HoldsPendingRead(id))
                => /\ PendingCached(cache', id)
                         => /\ PendingCached(cache, id)
                            /\ cache'[ModerationResultKey(id)] = cache[ModerationResultKey(id)]
                   /\ ~PendingCached(cache, id)
                         => \A r \in Readers :
                               (/\ reader[r].pc = "idle"
                                /\ reader'[r].pc = "done"
                                /\ reader'[r].id = id
                                /\ reader'[r].status_code = 200)
                                   => reader'[r].response[1].status
                                         = moderation_results[id].status]_vars

\* a request read the task while it was pending and cached that answer; the
\* task has since become terminal, 15 s have passed, and a later request
\* that found no entry has answered with the store's terminal status
C27_Witness ==
    \E r1, r2 \in Readers :
        /\ reader[r1].pc = "done" /\ ~reader[r1].hit /\ reader[r1].store = "ok"
        /\ reader[r1].response[1].status = "pending"
        /\ reader[r2].pc = "done" /\ ~reader[r2].hit /\ reader[r2].store = "ok"
        /\ reader[r2].id = reader[r1].id
        /\ Terminal(reader[r1].id)
        /\ reader[r2].response[1].status = moderation_results[reader[r1].id].status
        /\ clock >= PendingTtl
        /\ ~PendingCached(cache, reader[r1].id)

\* C28: once a close request for an item has returned successfully with all
\* its cache deletes succeeding, then, whatever moderation_result and
\* simple_predict requests run beside it, no cache entry is left for the
\* item's prediction key or for the key of any deleted task.
C28_ClosureResolvesStaleness ==
    \A c \in Closers :
        (closer[c].pc = "done" /\ closer[c].status_code = 200
            /\ closer[c].deletes = ExpectedDeletes(c))
            => \A k \in 1..Len(closer[c].deletes) : closer[c].deletes[k] \notin DOMAIN cache

\* C29: a pending task has no processed_at, a completed or failed task has
\* one, and it is not earlier than the task's created_at, whatever the order
\* of the inserting and the claiming transactions
C29_Timestamps ==
    \A id \in DOMAIN moderation_results :
        LET row == moderation_results[id]
        IN  /\ row.status = "pending" => row.processed_at = NULL
            /\ row.status \in {"completed", "failed"}
                  => /\ row.processed_at # NULL
                     /\ row.processed_at[1] >= row.created_at

\* C30: without infrastructure errors no call of create_pending ends with
\* StorageUnavailable: no request is answered 500
C30_OneRetrySuffices ==
    \A p \in Producers :
        ~(producer[p].pc = "done" /\ producer[p].status_code = 500)

\* C31: a create_advertisement request that has returned, raised or been
\* cancelled holds no open database connection, so no connection is open
\* when no request is in flight
C31_ConnectionsReleased ==
    \A c \in Creators :
        creator[c].pc \in {"idle", "done", "cancelled"} => c \notin connections

\* C32: every key in the cache has a time to live, whatever part of a
\* set's pipeline reached the server before a failure
C32_NoKeyWithoutTtl ==
    \A key \in DOMAIN cache :
        /\ cache[key].expires_at # NoExpiry
        /\ cache[key].expires_at > clock

\* both storages have written a key, one of them over an older entry after
\* time passed, and each key expires within its storage's time to live
C32_Witness ==
    /\ clock > 0
    /\ \E i \in Items, id \in 1..MaxRows :
          /\ PredictionKey(i) \in DOMAIN cache
          /\ ModerationResultKey(id) \in DOMAIN cache
          /\ cache[PredictionKey(i)].expires_at = clock + PredictionTtl
          /\ cache[ModerationResultKey(id)].expires_at \in (clock + 1)..(clock + PendingTtl)

\* the key a read handler writes after its read of the store
ReaderKey(r) ==
    IF reader[r].handler = "simple_predict" THEN PredictionKey(reader[r].id)
    ELSE ModerationResultKey(reader[r].id)

\* C33: no step of the worker changes the cache; an entry is created or
\* rewritten only by the cache write of a moderation_result or simple_predict
\* request, and removed only by its expiry or by a delete of the close handler
C33_NoWorkerWritePath ==
    [][/\ worker' # worker => cache' = cache
       /\ \A key \in DOMAIN cache' :
             (key \notin DOMAIN cache \/ cache'[key] # cache[key])
                => \E r \in Readers :
                      /\ reader[r].pc = "set_cached" /\ reader'[r].pc = "done"
                      /\ key = ReaderKey(r)
       /\ \A key \in DOMAIN cache \ DOMAIN cache' :
             \/ clock' > clock /\ cache[key].expires_at <= clock'
             \/ \E c \in Closers :
                   /\ closer[c].pc \in {"delete_prediction", "delete_moderation_result"}
                   /\ closer'[c].deletes = Append(closer[c].deletes, key)]_vars

\* the worker completed a task of which a moderation_result request had
\* cached the pending status: the entry still says pending
C33_Witness ==
    \E id \in DOMAIN moderation_results :
        /\ worker[1].pc = "done" /\ worker[1].task_id = Some(id)
        /\ moderation_results[id].status = "completed"
        /\ ModerationResultKey(id) \in DOMAIN cache
        /\ cache[ModerationResultKey(id)].value.fields.status = "pending"

\* C34: every task row's item_id is the item_id of a stored listing, also
\* when an enqueue that has passed its listing check runs beside a closure
C34_NoOrphanTasks ==
    \A id \in DOMAIN moderation_results :
        moderation_results[id].item_id \in advertisements

\* C35: while a listing is stored at most one task row of its item_id has
\* status completed, whatever the order of create_pending calls and claims
C35_AtMostOneCompletion ==
    \A i \in advertisements :
        Cardinality({id \in RowsOf(moderation_results, i) :
                        moderation_results[id].status = "completed"}) <= 1

\* task id is stored with status pending
IsPending(id) ==
    id \in DOMAIN moderation_results /\ moderation_results[id].status = "pending"

\* C36: with fair handlers, worker and delivery and no failure, every task
\* that is pending is later completed, failed or deleted by a closure
C36_Progress ==
    \A id \in 1..NumProducers : IsPending(id) ~> ~IsPending(id)

\* every request of the item has been consumed and handled, and an enqueue's
\* task, inserted as pending, is completed
C36_Witness ==
    /\ \A i \in Items : topic[i] = 0
    /\ \A w \in Workers : worker[w].pc \in {"idle", "done"}
    /\ \A p \in Producers : producer[p].pc = "done"
    /\ \E p \in Producers :
          /\ producer[p].inserted /\ producer[p].status = "pending"
          /\ producer[p].result # NULL
          /\ producer[p].result[1] \in DOMAIN moderation_results
          /\ moderation_results[producer[p].result[1]].status = "completed"

\* the publish of handler p fails in this step, after p inserted its task
PublishFails(p) ==
    /\ producer[p].pc = "send" /\ producer[p].inserted
    /\ producer'[p].pc = "done" /\ producer'[p].status_code = 500

\* handler p inserted task id and was answered 500 by its failed publish
PublishFailed(p, id) ==
    /\ producer[p].pc = "done" /\ producer[p].status_code = 500
    /\ producer[p].inserted /\ producer[p].result = Some(id)

C38_CloseOfMissingListing ==
    [][/\ \A c \in Closers, i \in Items :
            (close(c, i, "ok") /\ i \notin advertisements)
                => /\ closer'[c].close_result = NULL
                   /\ closer'[c].pc = "done" /\ closer'[c].status_code = 404
                   /\ closer'[c].deletes = <<>>
                   /\ RowsOf(moderation_results', i) = {}
                   /\ ChangedRows(moderation_results, moderation_results')
                         = RowsOf(moderation_results, i)
                   /\ advertisements' = advertisements
                   /\ cache' = cache
       /\ cache' # cache
            => \E c \in Closers :
                  /\ closer[c].close_result # NULL
                  /\ closer[c].pc \in {"delete_prediction", "delete_moderation_result"}]_vars

\* a close of an item without a listing was answered 404; the item's task
\* row is gone, and the keys of that task and of the item are still cached
C38_Witness ==
    \E c \in Closers, id \in 1..MaxRows :
        /\ closer[c].pc = "done" /\ closer[c].status_code = 404
        /\ closer[c].close_result = NULL
        /\ id \notin DOMAIN moderation_results
        /\ ModerationResultKey(id) \in DOMAIN cache
        /\ cache[ModerationResultKey(id)].value.fields.task_id = id
        /\ PredictionKey(closer[c].item_id) \in DOMAIN cache

\* handlers that ended a processing failure (not an invalid payload) with a
\* successful DLQ publish of this message
SentToDlq(error_message, payload) ==
    {w \in Workers : /\ worker[w].pc = "done" /\ worker[w].outcome = "dlq"
                     /\ worker[w].error_message = error_message
                     /\ worker[w].payload = Some(payload)}

C40_ClaimFrame ==
    [][\A w \in Workers :
          (worker[w].pc \in {"mark_completed", "mark_failed"} /\ worker'[w] # worker[w])
              => /\ DOMAIN moderation_results' = DOMAIN moderation_results
                 /\ advertisements' = advertisements
                 /\ next_id' = next_id
                 /\ Cardinality(ChangedRows(moderation_results, moderation_results')) <= 1
                 /\ \A id \in ChangedRows(moderation_results, moderation_results') :
                        /\ moderation_results[id].status = "pending"
                        /\ moderation_results[id].item_id = worker[w].item_id
                        /\ id = Min(PendingOf(moderation_results, worker[w].item_id))
                        /\ moderation_results'[id].item_id = moderation_results[id].item_id
                        /\ moderation_results'[id].created_at = moderation_results[id].created_at
                        /\ [moderation_results'[id] EXCEPT
                               !.status = moderation_results[id].status,
                               !.is_violation = moderation_results[id].is_violation,
                               !.probability = moderation_results[id].probability,
                               !.error_message = moderation_results[id].error_message,
                               !.processed_at = moderation_results[id].processed_at]
                              = moderation_results[id]
                 /\ PendingOf(moderation_results, worker[w].item_id) = {}
                        => moderation_results' = moderation_results]_vars

\* a handler completed the pending task of its item, a second handler of
\* the same item then found no pending row, and the pending task of another
\* item and the listings are as they were
C40_Witness ==
    \E w1, w2 \in Workers, id, other \in DOMAIN moderation_results :
        /\ w1 # w2
        /\ worker[w1].pc = "done" /\ worker[w1].outcome = "completed"
        /\ worker[w1].task_id = Some(id)
        /\ worker[w2].pc = "done" /\ worker[w2].outcome = "no pending task"
        /\ worker[w2].item_id = worker[w1].item_id
        /\ transitions = {<<w1, id>>}
        /\ moderation_results[id].item_id = worker[w1].item_id
        /\ moderation_results[id].status = "completed"
        /\ moderation_results[id].created_at = created_at_default
        /\ moderation_results[other].item_id # worker[w1].item_id
        /\ moderation_results[other].status = "pending"
        /\ advertisements = Items

====
